---- MODULE Spec2Model ----
(***************************************************************************)
(* A model of the Gomoku server: the board rule engine (game_logic.py),    *)
(* the room and the registry (room_manager.py) and the message handlers    *)
(* of the session dispatcher (gomoku_server.py).                           *)
(***************************************************************************)
EXTENDS Integers, Sequences, FiniteSets, TLC

VARIABLES
    grid,          \* a stand-alone GomokuBoard.board (SpecBoard)
    ret,           \* what the last board operation returned (SpecBoard)
    rooms,         \* the GameRoom objects, by the number N of their id room_<N>
    next_room_id,  \* RoomManager.next_room_id
    conns,         \* per connection: handle_client's locals current_room and role
    timer_thread,      \* GameRoom.timer_thread of the room of SpecThreads: a worker, or 0
    timer_stop_event,  \* is_set() of the Event that GameRoom.timer_stop_event names now
    threads,           \* the positions of the timer workers, the timeout threads and
                       \* the handle_client threads (SpecThreads)
    sent               \* who took the last step of SpecThreads, and what it sent

bvars == <<grid, ret>>
svars == <<rooms, next_room_id, conns>>
tvars == <<timer_thread, timer_stop_event, threads, sent>>
vars == <<grid, ret, rooms, next_room_id, conns, timer_thread, timer_stop_event, threads, sent>>

(***************************************************************************)
(* Bounds and program constants                                            *)
(***************************************************************************)
\* side of the modelled board (GomokuBoard(size); the server uses 15)
size == 6
\* length of the stone patterns the board specification starts from
PatLen == 5
\* game_logic.py:111, a run of this many stones wins
WinCount == 5
\* number of rooms created in one run (caps next_room_id)
MaxRooms == 1
\* seconds that pass in one step of the clock
TickLen == 180
\* number of cells white asks for in one game (black asks for WinCount)
WhiteCells == 2
\* room_manager.py:32
turn_time_limit == 60
\* room_manager.py:38
reconnect_timeout == 180
\* room_manager.py:39
max_reconnect_attempts == 2

None == "none"
Colors == {"black", "white"}
CellVals == {None} \cup Colors
Coord == 0 .. (size - 1)
Pos == Coord \X Coord

(***************************************************************************)
(* GomokuBoard (game_logic.py)                                             *)
(***************************************************************************)
EmptyBoard == [p \in Pos |-> None]

is_valid_position(x, y) == 0 <= x /\ x < size /\ 0 <= y /\ y < size

is_empty(b, x, y) == IF ~is_valid_position(x, y) THEN FALSE ELSE b[<<x, y>>] = None

\* place_stone with the occupancy test dropped
place_stone_overwrite(b, x, y, color) ==
    IF ~is_valid_position(x, y) THEN [err |-> "InvalidPosition", board |-> b]
    ELSE IF color \notin Colors THEN [err |-> "BadColor", board |-> b]
    ELSE [err |-> "ok", board |-> [b EXCEPT ![<<x, y>>] = color]]

\* the error raised (or "ok") and the grid afterwards
place_stone(b, x, y, color) ==
    IF ~is_valid_position(x, y) THEN [err |-> "InvalidPosition", board |-> b]
    ELSE IF ~is_empty(b, x, y) THEN [err |-> "Occupied", board |-> b]
    ELSE IF color \notin Colors THEN [err |-> "BadColor", board |-> b]
    ELSE [err |-> "ok", board |-> [b EXCEPT ![<<x, y>>] = color]]

\* the four direction pairs of check_winner, in the order of the source
directions == << << <<0, 1>>, <<0, -1>> >>,
                 << <<1, 0>>, <<-1, 0>> >>,
                 << <<1, 1>>, <<-1, -1>> >>,
                 << <<1, -1>>, <<-1, 1>> >> >>

\* the inner while loop: same-coloured cells met walking from (nx, ny)
RECURSIVE walk(_, _, _, _, _, _)
walk(b, color, nx, ny, dx, dy) ==
    IF is_valid_position(nx, ny) /\ b[<<nx, ny>>] = color
    THEN 1 + walk(b, color, nx + dx, ny + dy, dx, dy)
    ELSE 0

\* count of one direction pair: the stone itself plus both walks
line_count(b, x, y, pair) ==
    1 + walk(b, b[<<x, y>>], x + pair[1][1], y + pair[1][2], pair[1][1], pair[1][2])
      + walk(b, b[<<x, y>>], x + pair[2][1], y + pair[2][2], pair[2][1], pair[2][2])

\* check_winner that forgets the second diagonal
check_winner_three_axes(b, x, y) ==
    IF b[<<x, y>>] = None THEN None
    ELSE IF \E i \in 1 .. 3 : line_count(b, x, y, directions[i]) >= WinCount
         THEN b[<<x, y>>]
         ELSE None

check_winner(b, x, y) ==
    IF b[<<x, y>>] = None THEN None
    ELSE IF \E i \in 1 .. Len(directions) : line_count(b, x, y, directions[i]) >= WinCount
         THEN b[<<x, y>>]
         ELSE None

reset == EmptyBoard

(***************************************************************************)
(* GameRoom (room_manager.py)                                              *)
(*                                                                         *)
(* Times are kept as ages: turn_start_time and disconnect_time hold the    *)
(* seconds elapsed since time.time() was stored, which is all the code     *)
(* ever computes from them.  NoTime stands for None.                       *)
(***************************************************************************)
NoSock == "nosock"
NoName == "noname"
NoRoom == 0
NoTime == -1

\* the connections (sockets) and the player_name each one sends
Conns == {"c1", "c2", "c3"}
NameOf(c) == IF c = "c2" THEN "bob" ELSE "ann"

Other(color) == IF color = "black" THEN "white" ELSE "black"

Get(d, k, default) == IF k \in DOMAIN d THEN d[k] ELSE default
Put(d, k, v) == [n \in DOMAIN d \cup {k} |-> IF n = k THEN v ELSE d[n]]
EmptyMap == [n \in {} |-> 0]
RemoveAt(s, i) == SubSeq(s, 1, i - 1) \o SubSeq(s, i + 1, Len(s))
\* index of the first element of s that satisfies Test, 0 when there is none
FirstIndex(s, Test(_)) ==
    IF \E i \in 1 .. Len(s) : Test(s[i])
    THEN CHOOSE i \in 1 .. Len(s) : Test(s[i]) /\ \A j \in 1 .. (i - 1) : ~Test(s[j])
    ELSE 0

NewRoom(id) ==
    [room_id |-> id,
     registered |-> TRUE,            \* held by RoomManager.rooms
     players |-> <<>>,
     spectators |-> <<>>,
     status |-> "waiting",
     board |-> EmptyBoard,
     current_turn |-> "black",
     turn_start_time |-> NoTime,
     timer |-> "none",               \* the timer thread: none, first (started), run (looping)
     has_callback |-> FALSE,         \* _timer_callback is set
     disconnected_players |-> <<>>,  \* in insertion order: name, age, color (the stored
                                     \* reconnect_count is never read, and left out)
     reconnect_attempts |-> EmptyMap,
     is_paused |-> FALSE,
     rematch_requests |-> {}]

add_player(rm, sock, name) ==
    IF Len(rm.players) >= 2 THEN rm
    ELSE [rm EXCEPT !.players = Append(@, [socket |-> sock, name |-> name,
                       color |-> IF Len(rm.players) = 0 THEN "black" ELSE "white",
                       ready |-> FALSE])]

add_spectator(rm, sock, name) ==
    [rm EXCEPT !.spectators = Append(@, [socket |-> sock, name |-> name])]

get_player_by_socket(rm, sock) == FirstIndex(rm.players, LAMBDA p : p.socket = sock)
get_spectator_by_socket(rm, sock) == FirstIndex(rm.spectators, LAMBDA p : p.socket = sock)

is_full(rm) == Len(rm.players) >= 2

stop_timer(rm) == [rm EXCEPT !.timer = "none", !.turn_start_time = NoTime]

start_timer(rm) ==
    IF rm.is_paused THEN rm
    ELSE [rm EXCEPT !.timer = "first", !.turn_start_time = 0, !.has_callback = TRUE]

get_remaining_time(rm) ==
    IF rm.turn_start_time = NoTime THEN 0
    ELSE IF turn_time_limit - rm.turn_start_time > 0
         THEN turn_time_limit - rm.turn_start_time ELSE 0

\* disconnected_players[name] = rec
PutRecord(recs, rec) ==
    LET i == FirstIndex(recs, LAMBDA r : r.name = rec.name) IN
    IF i = 0 THEN Append(recs, rec) ELSE [recs EXCEPT ![i] = rec]
HasRecord(rm, name) == \E i \in 1 .. Len(rm.disconnected_players) : rm.disconnected_players[i].name = name
RecordOf(rm, name) == rm.disconnected_players[FirstIndex(rm.disconnected_players, LAMBDA r : r.name = name)]
DelRecord(recs, name) ==
    LET i == FirstIndex(recs, LAMBDA r : r.name = name) IN
    IF i = 0 THEN recs ELSE RemoveAt(recs, i)

RECURSIVE ClearReady(_)
ClearReady(ps) ==
    IF ps = <<>> THEN <<>>
    ELSE <<[Head(ps) EXCEPT !.ready = FALSE]>> \o ClearReady(Tail(ps))

\* KeepSeat without self.stop_timer() of line 123
KeepSeat_keep_timer(rm, i) ==
    [rm EXCEPT
        !.disconnected_players =
            IF Get(rm.reconnect_attempts, rm.players[i].name, 0) < max_reconnect_attempts
            THEN PutRecord(@, [name |-> rm.players[i].name, age |-> 0,
                               color |-> rm.players[i].color])
            ELSE @,
        !.players[i].socket = NoSock,
        !.is_paused = TRUE]

\* remove_player, a lost connection in a game: the seat stays without its socket
KeepSeat(rm, i) ==
    [stop_timer(rm) EXCEPT
        !.disconnected_players =
            IF Get(rm.reconnect_attempts, rm.players[i].name, 0) < max_reconnect_attempts
            THEN PutRecord(@, [name |-> rm.players[i].name, age |-> 0,
                               color |-> rm.players[i].color])
            ELSE @,
        !.players[i].socket = NoSock,
        !.is_paused = TRUE]

\* AfterRemoval without board.reset() of line 133 and without the loop of lines 137-138
AfterRemoval_keep_board(rm) ==
    IF Len(rm.players) = 1
    THEN [stop_timer(rm) EXCEPT !.status = "waiting", !.current_turn = "black",
                                !.rematch_requests = {}]
    ELSE IF Len(rm.players) = 0
         THEN [rm EXCEPT !.status = "waiting"]
         ELSE rm

\* remove_player, after the seat has left the list
AfterRemoval(rm) ==
    IF Len(rm.players) = 1
    THEN [stop_timer(rm) EXCEPT !.status = "waiting", !.board = reset, !.current_turn = "black",
                                !.players = ClearReady(@), !.rematch_requests = {}]
    ELSE IF Len(rm.players) = 0
         THEN [rm EXCEPT !.status = "waiting"]
         ELSE rm

\* the room afterwards and the name returned (NoName for None)
RemoveSeat(rm, i, is_disconnect) ==
    IF i = 0 THEN [room |-> rm, name |-> NoName]
    ELSE IF is_disconnect /\ rm.status = "playing"
         THEN [room |-> KeepSeat(rm, i), name |-> rm.players[i].name]
         ELSE [room |-> AfterRemoval([rm EXCEPT !.players = RemoveAt(@, i)]),
               name |-> rm.players[i].name]

\* remove_player without the branch of lines 111-125: a connection lost in a
\* game gives up the seat as a leave does
remove_player_as_leave(rm, sock, is_disconnect) ==
    RemoveSeat(rm, get_player_by_socket(rm, sock), FALSE)

remove_player(rm, sock, is_disconnect) ==
    RemoveSeat(rm, get_player_by_socket(rm, sock), is_disconnect)

RemoveWatcher(rm, i) ==
    IF i = 0 THEN [room |-> rm, name |-> NoName]
    ELSE [room |-> [rm EXCEPT !.spectators = RemoveAt(@, i)], name |-> rm.spectators[i].name]

remove_spectator(rm, sock) == RemoveWatcher(rm, get_spectator_by_socket(rm, sock))

switch_turn(rm) == [rm EXCEPT !.current_turn = Other(@)]

SetReady(rm, i, ready_state) ==
    IF i = 0 THEN rm ELSE [rm EXCEPT !.players[i].ready = ready_state]

set_player_ready(rm, sock, ready_state) ==
    SetReady(rm, get_player_by_socket(rm, sock), ready_state)

are_all_players_ready(rm) ==
    IF Len(rm.players) < 2 THEN FALSE
    ELSE \A i \in 1 .. Len(rm.players) : rm.players[i].ready

get_ready_status(rm) == [i \in 1 .. Len(rm.players) |-> <<rm.players[i].name, rm.players[i].ready>>]

\* can_reconnect with elapsed < reconnect_timeout in line 468
can_reconnect_before_timeout(rm, name) ==
    IF ~HasRecord(rm, name) THEN FALSE
    ELSE IF Get(rm.reconnect_attempts, name, 0) >= max_reconnect_attempts THEN FALSE
    ELSE RecordOf(rm, name).age < reconnect_timeout

can_reconnect(rm, name) ==
    IF ~HasRecord(rm, name) THEN FALSE
    ELSE IF Get(rm.reconnect_attempts, name, 0) >= max_reconnect_attempts THEN FALSE
    ELSE RecordOf(rm, name).age <= reconnect_timeout

\* reconnect_player: the seat of the name gets the new socket
Rebind(rm, i, new_socket) ==
    IF i = 0 THEN rm ELSE [rm EXCEPT !.players[i].socket = new_socket]

\* reconnect_player without the start_timer of lines 497-501
Resume_without_timer(rm) ==
    IF rm.disconnected_players # <<>> THEN rm
    ELSE [rm EXCEPT !.is_paused = FALSE]

\* reconnect_player: the game resumes once no record is left
Resume(rm) ==
    IF rm.disconnected_players # <<>> THEN rm
    ELSE IF rm.status = "playing" /\ rm.has_callback
         THEN start_timer([rm EXCEPT !.is_paused = FALSE])
         ELSE [rm EXCEPT !.is_paused = FALSE]

\* the room afterwards and the value returned
reconnect_player(rm, name, new_socket) ==
    IF ~HasRecord(rm, name) THEN [room |-> rm, ok |-> FALSE]
    ELSE IF ~can_reconnect(rm, name) THEN [room |-> rm, ok |-> FALSE]
    ELSE [room |-> Resume([Rebind(rm, FirstIndex(rm.players, LAMBDA p : p.name = name),
                                  new_socket)
                              EXCEPT !.reconnect_attempts = Put(@, name, Get(@, name, 0) + 1),
                                     !.disconnected_players = DelRecord(@, name)]),
          ok |-> TRUE]

\* the (name, color) pairs of the records older than the grace period
check_reconnect_timeout(rm) ==
    SelectSeq(rm.disconnected_players, LAMBDA r : r.age > reconnect_timeout)

\* the name of the first seat of the colour, NoName (None) when there is none
NameOfColor(rm, color) ==
    IF \E i \in 1 .. Len(rm.players) : rm.players[i].color = color
    THEN rm.players[FirstIndex(rm.players, LAMBDA p : p.color = color)].name
    ELSE NoName

\* the room afterwards, and the winner's colour and name
forfeit_player(rm, player_name, player_color) ==
    [room |-> [stop_timer(rm) EXCEPT !.disconnected_players = DelRecord(@, player_name),
                                     !.status = "finished", !.is_paused = FALSE],
     winner_color |-> IF player_color = "black" THEN "white" ELSE "black",
     winner_name |-> NameOfColor(rm, IF player_color = "black" THEN "white" ELSE "black")]

request_rematch(rm, player_name) ==
    IF rm.status # "finished" THEN rm
    ELSE [rm EXCEPT !.rematch_requests = @ \cup {player_name}]

is_rematch_agreed(rm) ==
    IF Len(rm.players) # 2 THEN FALSE
    ELSE \A i \in 1 .. Len(rm.players) : rm.players[i].name \in rm.rematch_requests

\* start_rematch changing the colour of the black seats only
RECURSIVE SwapColors_black_only(_)
SwapColors_black_only(ps) ==
    IF ps = <<>> THEN <<>>
    ELSE <<[Head(ps) EXCEPT !.color = IF @ = "black" THEN "white" ELSE @,
                            !.ready = TRUE]>> \o SwapColors_black_only(Tail(ps))

RECURSIVE SwapColors(_)
SwapColors(ps) ==
    IF ps = <<>> THEN <<>>
    ELSE <<[Head(ps) EXCEPT !.color = IF @ = "black" THEN "white"
                                      ELSE IF @ = "white" THEN "black" ELSE @,
                            !.ready = TRUE]>> \o SwapColors(Tail(ps))

start_rematch(rm) ==
    [rm EXCEPT !.board = reset, !.current_turn = "black", !.status = "playing",
               !.rematch_requests = {}, !.players = SwapColors(@)]

\* the sockets broadcast_to_all sends to
Recipients(rm) ==
    {rm.players[i].socket : i \in {j \in 1 .. Len(rm.players) : rm.players[j].socket # NoSock}}
      \cup {rm.spectators[i].socket : i \in 1 .. Len(rm.spectators)}

(***************************************************************************)
(* RoomManager (room_manager.py).  A world w holds the room objects, the   *)
(* id counter and out, the messages the running handler has sent so far.   *)
(***************************************************************************)
Registered(w) == {r \in DOMAIN w.rooms : w.rooms[r].registered}

\* create_room giving the lowest number no room of the registry has
create_room_lowest_free(w) ==
    [w EXCEPT !.rooms = Put(@, CHOOSE n \in 1 .. w.next : n \notin Registered(w)
                                 /\ \A m \in 1 .. (n - 1) : m \in Registered(w),
                            NewRoom(CHOOSE n \in 1 .. w.next : n \notin Registered(w)
                                 /\ \A m \in 1 .. (n - 1) : m \in Registered(w))),
               !.next = @ + 1]

\* create_room: the next id names a new, empty room
create_room(w) ==
    [w EXCEPT !.rooms = Put(@, w.next, NewRoom(w.next)), !.next = @ + 1]

HasLive(rm) == Recipients(rm) # {}

\* rooms without a live player or spectator socket leave the registry
cleanup_empty_rooms(w) ==
    [w EXCEPT !.rooms = [r \in DOMAIN @ |->
        IF @[r].registered /\ ~HasLive(@[r]) THEN [@[r] EXCEPT !.registered = FALSE] ELSE @[r]]]

InRoom(rm, sock) == get_player_by_socket(rm, sock) # 0 \/ get_spectator_by_socket(rm, sock) # 0

\* the first registered room (ids ascend in insertion order) holding the socket
find_room_by_socket(w, sock) ==
    LET holds == {r \in Registered(w) : InRoom(w.rooms[r], sock)} IN
    IF holds = {} THEN [room |-> NoRoom, role |-> "none"]
    ELSE LET r == CHOOSE r \in holds : \A q \in holds : r <= q IN
         [room |-> r,
          role |-> IF get_player_by_socket(w.rooms[r], sock) # 0 THEN "player" ELSE "spectator"]

(***************************************************************************)
(* GomokuServer (gomoku_server.py): the message handlers                   *)
(***************************************************************************)
Msg(type, r, to, data) == [type |-> type, room |-> r, to |-> to, data |-> data]

send(w, sock, r, type, data) == [w EXCEPT !.out = Append(@, Msg(type, r, {sock}, data))]

broadcast_to_all(w, r, type, data) ==
    [w EXCEPT !.out = Append(@, Msg(type, r, Recipients(w.rooms[r]), data))]

SetRoom(w, r, rm) == [w EXCEPT !.rooms[r] = rm]

\* remove_from_room: the notices that follow the removal of user_name
LeftNotices(w, r, role, is_disconnect, user_name) ==
    LET w2 == IF role = "player" /\ user_name # NoName /\ is_disconnect
                     /\ w.rooms[r].status = "playing"
              THEN broadcast_to_all(
                     broadcast_to_all(w, r, "PLAYER_DISCONNECTED", <<user_name>>),
                     r, "GAME_PAUSED", <<user_name>>)
              ELSE IF role = "player" /\ user_name # NoName /\ ~is_disconnect
                      /\ Len(w.rooms[r].players) = 1 /\ w.rooms[r].status = "waiting"
                   THEN broadcast_to_all(w, r, "ROOM_UPDATE", <<"waiting">>)
                   ELSE w
    IN  IF user_name # NoName /\ ~is_disconnect
        THEN broadcast_to_all(w2, r, "USER_LEFT", <<user_name, role>>)
        ELSE w2

\* remove_from_room, given what remove_player or remove_spectator returned
Removed(w, r, role, is_disconnect, rp) ==
    cleanup_empty_rooms(LeftNotices(SetRoom(w, r, rp.room), r, role, is_disconnect, rp.name))

remove_from_room(w, sock, r, role, is_disconnect) ==
    Removed(w, r, role, is_disconnect,
            IF role = "player" THEN remove_player(w.rooms[r], sock, is_disconnect)
            ELSE IF role = "spectator" THEN remove_spectator(w.rooms[r], sock)
            ELSE [room |-> w.rooms[r], name |-> NoName])

\* the opening of the create, join and spectate handlers
LeaveFound(w, sock, e) ==
    IF e.room # NoRoom THEN remove_from_room(w, sock, e.room, e.role, FALSE) ELSE w

LeaveExisting(w, sock) == LeaveFound(w, sock, find_room_by_socket(w, sock))

\* handle_create_room, once create_room has returned the room w.next - 1
Created(w, sock) ==
    send(SetRoom(w, w.next - 1, add_player(w.rooms[w.next - 1], sock, NameOf(sock))),
         sock, w.next - 1, "SUCCESS", <<"created", "black">>)

handle_create_room(w, sock) == Created(create_room(LeaveExisting(w, sock)), sock)

\* the colour of the first seat of the name, None when there is none
ColorOfName(rm, name) ==
    IF \E i \in 1 .. Len(rm.players) : rm.players[i].name = name
    THEN rm.players[FirstIndex(rm.players, LAMBDA p : p.name = name)].color
    ELSE None

GameResumed(w, r) ==
    IF ~w.rooms[r].is_paused THEN broadcast_to_all(w, r, "GAME_RESUMED", <<>>) ELSE w

\* handle_reconnect in room r, once reconnect_player has left the room as rm
Reconnected(w, sock, r, player_name, rm) ==
    GameResumed(
      broadcast_to_all(
        send(SetRoom(w, r, rm), sock, r, "SUCCESS",
             IF rm.status = "playing" /\ ~rm.is_paused
             THEN <<"reconnected", ColorOfName(w.rooms[r], player_name), get_remaining_time(rm)>>
             ELSE <<"reconnected", ColorOfName(w.rooms[r], player_name)>>),
        r, "PLAYER_RECONNECTED", <<player_name>>),
      r)

ReconnectIn(w, sock, r, player_name) ==
    Reconnected(w, sock, r, player_name, reconnect_player(w.rooms[r], player_name, sock).room)

\* the registered rooms in which the name can reconnect
CanReconnectIn(w, player_name) == {r \in Registered(w) : can_reconnect(w.rooms[r], player_name)}

handle_reconnect(w, sock, player_name) ==
    IF CanReconnectIn(w, player_name) # {}
    THEN ReconnectIn(w, sock,
                     CHOOSE r \in CanReconnectIn(w, player_name) :
                            \A q \in CanReconnectIn(w, player_name) : r <= q,
                     player_name)
    ELSE IF \E r \in Registered(w) :
               /\ player_name \in DOMAIN w.rooms[r].reconnect_attempts
               /\ w.rooms[r].reconnect_attempts[player_name] >= max_reconnect_attempts
         THEN send(w, sock, NoRoom, "ERROR", <<"ReconnectAttemptsExceeded">>)
         ELSE send(w, sock, NoRoom, "ERROR", <<"NoReconnectSession">>)

\* handle_join_room, once add_player has seated the socket in the last seat
Seated(w, sock, room_id, player_name, color) ==
    IF is_full(w.rooms[room_id])
    THEN broadcast_to_all(
           broadcast_to_all(send(w, sock, room_id, "SUCCESS", <<"joined", color>>),
                            room_id, "USER_JOINED", <<player_name, "player", color>>),
           room_id, "READY_STATUS", get_ready_status(w.rooms[room_id]))
    ELSE broadcast_to_all(send(w, sock, room_id, "SUCCESS", <<"joined", color>>),
                          room_id, "USER_JOINED", <<player_name, "player", color>>)

\* handle_join_room, after the socket has left the room it was in
Join(w, sock, room_id, player_name) ==
    IF room_id \notin Registered(w)
    THEN send(w, sock, NoRoom, "ERROR", <<"RoomNotFound">>)
    ELSE IF can_reconnect(w.rooms[room_id], player_name)
    THEN handle_reconnect(w, sock, player_name)
    ELSE IF is_full(w.rooms[room_id])
    THEN send(w, sock, room_id, "ERROR", <<"RoomFull">>)
    ELSE Seated(SetRoom(w, room_id, add_player(w.rooms[room_id], sock, player_name)),
                sock, room_id, player_name,
                IF Len(w.rooms[room_id].players) = 0 THEN "black" ELSE "white")

handle_join_room(w, sock, room_id) == Join(LeaveExisting(w, sock), sock, room_id, NameOf(sock))

\* handle_spectate_room, after the socket has left the room it was in
Spectate(w, sock, room_id) ==
    IF room_id \notin Registered(w)
    THEN send(w, sock, NoRoom, "ERROR", <<"RoomNotFound">>)
    ELSE broadcast_to_all(
           send(SetRoom(w, room_id, add_spectator(w.rooms[room_id], sock, NameOf(sock))),
                sock, room_id, "SUCCESS", <<"spectating", w.rooms[room_id].status>>),
           room_id, "USER_JOINED", <<NameOf(sock), "spectator">>)

handle_spectate_room(w, sock, room_id) == Spectate(LeaveExisting(w, sock), sock, room_id)

handle_chat_message(w, sock, cur) ==
    IF cur = NoRoom THEN send(w, sock, NoRoom, "ERROR", <<"NotInRoom">>)
    ELSE broadcast_to_all(w, cur, "CHAT_MESSAGE",
           <<NameOf(sock),
             IF get_player_by_socket(w.rooms[cur], sock) # 0 THEN "player" ELSE "spectator">>)

handle_spectator_chat(w, sock, cur) ==
    IF cur = NoRoom THEN send(w, sock, NoRoom, "ERROR", <<"NotInRoom">>)
    ELSE IF get_spectator_by_socket(w.rooms[cur], sock) = 0
    THEN send(w, sock, cur, "ERROR", <<"NotSpectator">>)
    ELSE [w EXCEPT !.out = Append(@, Msg("SPECTATOR_CHAT", cur,
              {w.rooms[cur].spectators[i].socket : i \in 1 .. Len(w.rooms[cur].spectators)},
              <<w.rooms[cur].spectators[get_spectator_by_socket(w.rooms[cur], sock)].name>>))]

PlayerList(rm) == [i \in 1 .. Len(rm.players) |-> <<rm.players[i].name, rm.players[i].color>>]

\* room.start_timer(...) on the room r of the world
StartTimer(w, r) == SetRoom(w, r, start_timer(w.rooms[r]))

GameStart(w, r) ==
    broadcast_to_all(w, r, "GAME_START", <<w.rooms[r].current_turn, PlayerList(w.rooms[r])>>)

TurnChange(w, r) == broadcast_to_all(w, r, "TURN_CHANGE", <<w.rooms[r].current_turn>>)

\* handle_ready: the seat's flag is inverted and the flags are announced
ToggleReady(w, sock, cur) ==
    broadcast_to_all(
      SetRoom(w, cur, set_player_ready(w.rooms[cur], sock,
                ~w.rooms[cur].players[get_player_by_socket(w.rooms[cur], sock)].ready)),
      cur, "READY_STATUS",
      get_ready_status(set_player_ready(w.rooms[cur], sock,
                ~w.rooms[cur].players[get_player_by_socket(w.rooms[cur], sock)].ready)))

\* handle_ready: the game starts when every seat is ready
StartIfReady(w, cur) ==
    IF are_all_players_ready(w.rooms[cur])
    THEN StartTimer(GameStart(SetRoom(w, cur, [w.rooms[cur] EXCEPT !.status = "playing"]), cur),
                    cur)
    ELSE w

handle_ready(w, sock, cur) ==
    IF cur = NoRoom THEN send(w, sock, NoRoom, "ERROR", <<"NotInRoom">>)
    ELSE IF get_player_by_socket(w.rooms[cur], sock) = 0
    THEN send(w, sock, cur, "ERROR", <<"NotSeated">>)
    ELSE StartIfReady(ToggleReady(w, sock, cur), cur)

\* xy is the pair (x, y) of the message, or NoXY when a coordinate is missing
NoXY == <<>>

\* handle_place_stone, after BOARD_UPDATE: the game ends or the turn passes
AfterStone(w, cur, xy, player) ==
    IF check_winner(w.rooms[cur].board, xy[1], xy[2]) # None
    THEN broadcast_to_all(
           SetRoom(w, cur, [stop_timer(w.rooms[cur]) EXCEPT !.status = "finished"]),
           cur, "GAME_END",
           <<check_winner(w.rooms[cur].board, xy[1], xy[2]), player.name, "five">>)
    ELSE StartTimer(TurnChange(SetRoom(w, cur, switch_turn(stop_timer(w.rooms[cur]))), cur), cur)

\* handle_place_stone, given what board.place_stone returned
Stone(w, sock, cur, xy, player, pl) ==
    IF pl.err # "ok" THEN send(w, sock, cur, "ERROR", <<pl.err>>)
    ELSE AfterStone(
           broadcast_to_all(SetRoom(w, cur, [w.rooms[cur] EXCEPT !.board = pl.board]),
                            cur, "BOARD_UPDATE", <<xy[1], xy[2], player.color>>),
           cur, xy, player)

\* handle_place_stone, for the seat that holds the turn
Place(w, sock, cur, xy, player) ==
    Stone(w, sock, cur, xy, player, place_stone(w.rooms[cur].board, xy[1], xy[2], player.color))

\* handle_place_stone without the turn check of lines 424-427
handle_place_stone_any_turn(w, sock, cur, xy) ==
    IF cur = NoRoom THEN send(w, sock, NoRoom, "ERROR", <<"NotInRoom">>)
    ELSE IF get_player_by_socket(w.rooms[cur], sock) = 0
    THEN send(w, sock, cur, "ERROR", <<"NotSeated">>)
    ELSE IF w.rooms[cur].status # "playing"
    THEN send(w, sock, cur, "ERROR", <<"NotPlaying">>)
    ELSE IF xy = NoXY
    THEN send(w, sock, cur, "ERROR", <<"InvalidCoordinates">>)
    ELSE Place(w, sock, cur, xy, w.rooms[cur].players[get_player_by_socket(w.rooms[cur], sock)])

handle_place_stone(w, sock, cur, xy) ==
    IF cur = NoRoom THEN send(w, sock, NoRoom, "ERROR", <<"NotInRoom">>)
    ELSE IF get_player_by_socket(w.rooms[cur], sock) = 0
    THEN send(w, sock, cur, "ERROR", <<"NotSeated">>)
    ELSE IF w.rooms[cur].status # "playing"
    THEN send(w, sock, cur, "ERROR", <<"NotPlaying">>)
    ELSE IF w.rooms[cur].players[get_player_by_socket(w.rooms[cur], sock)].color
               # w.rooms[cur].current_turn
    THEN send(w, sock, cur, "ERROR", <<"NotYourTurn">>)
    ELSE IF xy = NoXY
    THEN send(w, sock, cur, "ERROR", <<"InvalidCoordinates">>)
    ELSE Place(w, sock, cur, xy, w.rooms[cur].players[get_player_by_socket(w.rooms[cur], sock)])

handle_leave_room(w, sock, cur, role) ==
    IF cur # NoRoom
    THEN send(remove_from_room(w, sock, cur, role, FALSE), sock, NoRoom, "SUCCESS", <<"left">>)
    ELSE send(w, sock, NoRoom, "SUCCESS", <<"lobby">>)

\* handle_timer_event(room_id, "update", remaining_time)
handle_timer_update(w, room_id, remaining_time) ==
    IF room_id \notin Registered(w) THEN w
    ELSE broadcast_to_all(w, room_id, "TIMER_UPDATE", <<remaining_time>>)

\* handle_timer_event(room_id, "timeout") without the switch_turn of line 550
handle_timer_timeout_keep_turn(w, room_id) ==
    IF room_id \notin Registered(w) THEN w
    ELSE IF w.rooms[room_id].status # "playing" THEN w
    ELSE StartTimer(
           TurnChange(broadcast_to_all(w, room_id, "TIME_UP", <<w.rooms[room_id].current_turn>>),
                      room_id),
           room_id)

\* handle_timer_event(room_id, "timeout")
handle_timer_timeout(w, room_id) ==
    IF room_id \notin Registered(w) THEN w
    ELSE IF w.rooms[room_id].status # "playing" THEN w
    ELSE StartTimer(
           TurnChange(
             SetRoom(broadcast_to_all(w, room_id, "TIME_UP", <<w.rooms[room_id].current_turn>>),
                     room_id, switch_turn(w.rooms[room_id])),
             room_id),
           room_id)

\* handle_surrender, for a seat of colour color in a game
Surrendered(w, cur, winner_color) ==
    broadcast_to_all(SetRoom(w, cur, [stop_timer(w.rooms[cur]) EXCEPT !.status = "finished"]),
                     cur, "GAME_END",
                     <<winner_color, NameOfColor(w.rooms[cur], winner_color), "surrendered">>)

\* handle_surrender without the stop_timer of line 729
handle_surrender_keep_timer(w, sock, cur) ==
    IF cur = NoRoom \/ w.rooms[cur].status # "playing"
    THEN send(w, sock, cur, "ERROR", <<"NotPlaying">>)
    ELSE IF get_player_by_socket(w.rooms[cur], sock) = 0
    THEN send(w, sock, cur, "ERROR", <<"NotSeated">>)
    ELSE broadcast_to_all(SetRoom(w, cur, [w.rooms[cur] EXCEPT !.status = "finished"]),
                          cur, "GAME_END",
                          <<Other(w.rooms[cur].players[get_player_by_socket(w.rooms[cur], sock)].color),
                            NoName, "surrendered">>)

handle_surrender(w, sock, cur) ==
    IF cur = NoRoom \/ w.rooms[cur].status # "playing"
    THEN send(w, sock, cur, "ERROR", <<"NotPlaying">>)
    ELSE IF get_player_by_socket(w.rooms[cur], sock) = 0
    THEN send(w, sock, cur, "ERROR", <<"NotSeated">>)
    ELSE Surrendered(w, cur,
           IF w.rooms[cur].players[get_player_by_socket(w.rooms[cur], sock)].color = "black"
           THEN "white" ELSE "black")

\* the rematch both rematch handlers start once is_rematch_agreed holds
StartRematch(w, cur) ==
    StartTimer(
      GameStart(
        broadcast_to_all(SetRoom(w, cur, start_rematch(w.rooms[cur])),
                         cur, "BOARD_UPDATE",
                         <<-1, -1, None, start_rematch(w.rooms[cur]).board>>),
        cur),
      cur)

RematchIfAgreed(w, cur) == IF is_rematch_agreed(w.rooms[cur]) THEN StartRematch(w, cur) ELSE w

\* handle_rematch, for the seat named player_name of a finished game
Requested(w, cur, player_name) ==
    RematchIfAgreed(
      broadcast_to_all(SetRoom(w, cur, request_rematch(w.rooms[cur], player_name)),
                       cur, "REMATCH", <<player_name>>),
      cur)

handle_rematch(w, sock, cur) ==
    IF cur = NoRoom \/ w.rooms[cur].status # "finished"
    THEN send(w, sock, cur, "ERROR", <<"NotFinished">>)
    ELSE IF get_player_by_socket(w.rooms[cur], sock) = 0
    THEN send(w, sock, cur, "ERROR", <<"NotSeated">>)
    ELSE Requested(w, cur, w.rooms[cur].players[get_player_by_socket(w.rooms[cur], sock)].name)

\* handle_rematch_response with accepted = True, after request_rematch
Accepted(w, sock, cur) ==
    IF is_rematch_agreed(w.rooms[cur]) THEN StartRematch(w, cur)
    ELSE send(w, sock, cur, "SUCCESS", <<"waiting">>)

\* handle_rematch_response, for the seat named player_name
Responded(w, sock, cur, accepted, player_name) ==
    IF accepted
    THEN Accepted(SetRoom(w, cur, request_rematch(w.rooms[cur], player_name)), sock, cur)
    ELSE broadcast_to_all(SetRoom(w, cur, [w.rooms[cur] EXCEPT !.rematch_requests = {}]),
                          cur, "REMATCH_DECLINED", <<player_name>>)

handle_rematch_response(w, sock, cur, accepted) ==
    IF cur = NoRoom THEN send(w, sock, NoRoom, "ERROR", <<"NotInRoom">>)
    ELSE IF get_player_by_socket(w.rooms[cur], sock) = 0
    THEN send(w, sock, cur, "ERROR", <<"NotSeated">>)
    ELSE Responded(w, sock, cur, accepted,
                   w.rooms[cur].players[get_player_by_socket(w.rooms[cur], sock)].name)

\* monitor_reconnection_timeouts: the two messages after forfeit_player returned f
Forfeited(w, r, player_name, f) ==
    broadcast_to_all(
      broadcast_to_all(SetRoom(w, r, f.room), r, "FORFEIT",
                       <<f.winner_color, f.winner_name, player_name>>),
      r, "GAME_END", <<f.winner_color, f.winner_name, "forfeited">>)

\* one pass of monitor_reconnection_timeouts over the records of one room
RECURSIVE ForfeitAll(_, _, _)
ForfeitAll(w, r, timed_out) ==
    IF timed_out = <<>> THEN w
    ELSE ForfeitAll(Forfeited(w, r, Head(timed_out).name,
                              forfeit_player(w.rooms[r], Head(timed_out).name,
                                             Head(timed_out).color)),
                    r, Tail(timed_out))

\* ... and over the registered rooms from id r on
RECURSIVE SweepFrom(_, _)
SweepFrom(w, r) ==
    IF r >= w.next THEN w
    ELSE IF r \in Registered(w)
         THEN SweepFrom(ForfeitAll(w, r, check_reconnect_timeout(w.rooms[r])), r + 1)
         ELSE SweepFrom(w, r + 1)

monitor_reconnection_timeouts(w) == SweepFrom(w, 1)

(***************************************************************************)
(* Spec: the server with every handler run as one step.  A step runs the   *)
(* handler of one message from its first line to its last, as              *)
(* handle_client does before it reads the next message of a connection.    *)
(***************************************************************************)
\* the connections that ask for a seat (CREATE_ROOM, JOIN_ROOM, RECONNECT)
\* and those that ask to watch (SPECTATE_ROOM); every connection sends the
\* other messages
Seaters == {"c1", "c2"}
Watchers == {"c3"}
\* the connections that are lost; the others part with LEAVE_ROOM
Droppers == {"c1", "c3"}

W0 == [rooms |-> rooms, next |-> next_room_id, out |-> <<>>]

\* handle_client starts with current_room = None and role = None; a
\* connection that is not accepted yet is not told apart from one that is
\* and has entered no room
LobbyConn == [current_room |-> NoRoom, role |-> "none"]

\* a room object lives while the registry, a handle_client frame or a timer thread holds it
Collect(rs, cs) ==
    LET keep == {r \in DOMAIN rs :
                    \/ rs[r].registered
                    \/ rs[r].timer # "none"
                    \/ \E c \in Conns : cs[c].current_room = r}
    IN  [r \in keep |-> rs[r]]

Commit(w, cs) ==
    /\ rooms' = Collect(w.rooms, cs)
    /\ next_room_id' = w.next
    /\ conns' = cs
    /\ UNCHANGED <<bvars, tvars>>

\* current_room, role = find_room_by_socket(client_socket)
Refresh(w, c) ==
    LET f == find_room_by_socket(w, c) IN
    [conns EXCEPT ![c].current_room = f.room, ![c].role = f.role]

CommitRefresh(w, c) == Commit(w, Refresh(w, c))

Referenced(c) == \E r \in DOMAIN rooms : InRoom(rooms[r], c)

\* the socket of c is live: its thread is in a room, or no room holds the
\* socket, so that c names a connection start() can still accept
Live(c) == conns[c].current_room # NoRoom \/ ~Referenced(c)

\* no thread is looked at step by step
InitIdleThreads ==
    /\ timer_thread = 0
    /\ timer_stop_event = FALSE
    /\ threads = [workers |-> <<>>, callbacks |-> <<>>, handlers |-> [c \in Seaters |-> "idle"]]
    /\ sent = [by |-> <<"none">>, out |-> <<>>]

InitServer ==
    /\ rooms = EmptyMap
    /\ next_room_id = 1
    /\ conns = [c \in Conns |-> LobbyConn]
    /\ InitIdleThreads

InitIdleBoard ==
    /\ grid = EmptyBoard
    /\ ret = [op |-> "init", x |-> 0, y |-> 0, color |-> None, err |-> "ok",
              winner |-> None, before |-> EmptyBoard]

Init == InitServer /\ InitIdleBoard

\* the cells a client asks for in PLACE_STONE: black fills row 0 from the left,
\* WinCount cells, and white row 1, WhiteCells cells; besides the next free
\* cell of its row a seat asks for the first cell of the row (taken once the
\* row is begun), for a cell outside the board, and sends a message without
\* coordinates
RowOf(color) == IF color = "black" THEN 0 ELSE 1
CellsOf(color) == IF color = "black" THEN WinCount ELSE WhiteCells
NextFree(b, x, n) ==
    {<<x, k>> : k \in {j \in 0 .. (n - 1) :
                          b[<<x, j>>] = None /\ \A i \in 0 .. (j - 1) : b[<<x, i>>] # None}}
MovesOf(c) ==
    LET cur == conns[c].current_room
        i == IF cur = NoRoom THEN 0 ELSE get_player_by_socket(rooms[cur], c)
    IN  IF i = 0 THEN {<<0, 0>>, NoXY}
        ELSE LET color == rooms[cur].players[i].color
                 x == RowOf(color)
             IN  NextFree(rooms[cur].board, x, CellsOf(color)) \cup {<<x, 0>>, <<size, 0>>, NoXY}

\* every cell a PLACE_STONE of the model can ask for
Cells ==
    {<<RowOf(k), j>> : k \in Colors, j \in 0 .. (WinCount - 1)} \cup {<<size, 0>>, NoXY}

\* handle_client's finally: the connection is lost
ConnectionLost(w, c) ==
    IF conns[c].current_room # NoRoom
    THEN remove_from_room(w, c, conns[c].current_room, conns[c].role, TRUE)
    ELSE w

Disconnect(c) ==
    /\ conns[c].current_room # NoRoom
    /\ Commit(ConnectionLost(W0, c), [conns EXCEPT ![c] = LobbyConn])

CreateRoom(c) ==
    /\ Live(c)
    /\ next_room_id <= MaxRooms
    /\ CommitRefresh(handle_create_room(W0, c), c)

JoinRoom(c, room_id) ==
    /\ Live(c)
    /\ CommitRefresh(handle_join_room(W0, c, room_id), c)

SpectateRoom(c, room_id) ==
    /\ Live(c)
    /\ CommitRefresh(handle_spectate_room(W0, c, room_id), c)

Reconnect(c) ==
    /\ Live(c)
    /\ CommitRefresh(handle_reconnect(W0, c, NameOf(c)), c)

\* a CHAT_MESSAGE of a connection that is in its room no more raises in the
\* handler (spectator is None), and handle_client ends as for a lost connection
ChatMessage(c) ==
    /\ Live(c)
    /\ IF conns[c].current_room # NoRoom /\ ~InRoom(rooms[conns[c].current_room], c)
       THEN Commit(ConnectionLost(W0, c), [conns EXCEPT ![c] = LobbyConn])
       ELSE Commit(handle_chat_message(W0, c, conns[c].current_room), conns)

SpectatorChat(c) ==
    /\ Live(c)
    /\ Commit(handle_spectator_chat(W0, c, conns[c].current_room), conns)

Ready(c) ==
    /\ Live(c)
    /\ Commit(handle_ready(W0, c, conns[c].current_room), conns)

PlaceStone(c, xy) ==
    /\ Live(c)
    /\ xy \in MovesOf(c)
    /\ Commit(handle_place_stone(W0, c, conns[c].current_room, xy), conns)

LeaveRoom(c) ==
    /\ Live(c)
    /\ Commit(handle_leave_room(W0, c, conns[c].current_room, conns[c].role),
              [conns EXCEPT ![c] = LobbyConn])

Surrender(c) ==
    /\ Live(c)
    /\ Commit(handle_surrender(W0, c, conns[c].current_room), conns)

Rematch(c) ==
    /\ Live(c)
    /\ Commit(handle_rematch(W0, c, conns[c].current_room), conns)

RematchResponse(c, accepted) ==
    /\ Live(c)
    /\ Commit(handle_rematch_response(W0, c, conns[c].current_room, accepted), conns)

\* _timer_worker: the first update, sent as the thread starts
TimerFirst(r) ==
    /\ r \in DOMAIN rooms
    /\ rooms[r].timer = "first"
    /\ Commit(handle_timer_update(SetRoom(W0, r, [rooms[r] EXCEPT !.timer = "run"]), r,
                                  turn_time_limit), conns)

\* _timer_worker: one round of the loop with time left
TimerUpdate(r) ==
    /\ r \in DOMAIN rooms
    /\ rooms[r].timer = "run"
    /\ rooms[r].turn_start_time # NoTime
    /\ turn_time_limit - rooms[r].turn_start_time > 0
    /\ Commit(handle_timer_update(W0, r, turn_time_limit - rooms[r].turn_start_time), conns)

\* _timer_worker: the round that finds no time left; the timeout callback runs
TimerTimeout(r) ==
    /\ r \in DOMAIN rooms
    /\ rooms[r].timer = "run"
    /\ rooms[r].turn_start_time # NoTime
    /\ turn_time_limit - rooms[r].turn_start_time <= 0
    /\ Commit(handle_timer_timeout(SetRoom(W0, r, [rooms[r] EXCEPT !.timer = "none"]), r), conns)

\* monitor_reconnection_timeouts: one pass over the rooms
ForfeitSweep ==
    /\ \E r \in Registered(W0) : check_reconnect_timeout(rooms[r]) # <<>>
    /\ Commit(monitor_reconnection_timeouts(W0), conns)

\* TickLen seconds pass
RECURSIVE AgeRecords(_)
AgeRecords(recs) ==
    IF recs = <<>> THEN <<>>
    ELSE <<[Head(recs) EXCEPT !.age = IF @ > reconnect_timeout THEN @ ELSE @ + TickLen]>>
           \o AgeRecords(Tail(recs))

AgeRoom(rm) ==
    [rm EXCEPT !.turn_start_time = IF @ = NoTime \/ @ >= turn_time_limit THEN @ ELSE @ + TickLen,
               !.disconnected_players = AgeRecords(@)]

Tick ==
    /\ \E r \in DOMAIN rooms : AgeRoom(rooms[r]) # rooms[r]
    /\ Commit([W0 EXCEPT !.rooms = [r \in DOMAIN rooms |-> AgeRoom(rooms[r])]], conns)

Next ==
    \/ \E c \in Droppers : Disconnect(c)
    \/ \E c \in Seaters : CreateRoom(c)
    \/ \E c \in Seaters, r \in 1 .. MaxRooms : JoinRoom(c, r)
    \/ \E c \in Watchers, r \in 1 .. MaxRooms : SpectateRoom(c, r)
    \/ \E c \in Seaters : Reconnect(c)
    \/ \E c \in Conns : ChatMessage(c)
    \/ \E c \in Conns : SpectatorChat(c)
    \/ \E c \in Conns : Ready(c)
    \/ \E c \in Conns, xy \in Cells : PlaceStone(c, xy)
    \/ \E c \in Conns : LeaveRoom(c)
    \/ \E c \in Conns : Surrender(c)
    \/ \E c \in Conns : Rematch(c)
    \/ \E c \in Conns, accepted \in BOOLEAN : RematchResponse(c, accepted)
    \/ \E r \in 1 .. MaxRooms : TimerFirst(r)
    \/ \E r \in 1 .. MaxRooms : TimerUpdate(r)
    \/ \E r \in 1 .. MaxRooms : TimerTimeout(r)
    \/ ForfeitSweep
    \/ Tick

Spec == Init /\ [][Next]_vars

(***************************************************************************)
(* SpecReconnect: the server again, with the connection of either seat     *)
(* lost and found again.  No stone is placed and no chat is sent; the      *)
(* handlers run as one step each, as in Spec.                              *)
(***************************************************************************)
NextReconnect ==
    \/ \E c \in Seaters : Disconnect(c)
    \/ \E c \in Seaters : CreateRoom(c)
    \/ \E c \in Seaters, r \in 1 .. MaxRooms : JoinRoom(c, r)
    \/ \E c \in Watchers, r \in 1 .. MaxRooms : SpectateRoom(c, r)
    \/ \E c \in Seaters : Reconnect(c)
    \/ \E c \in Conns : Ready(c)
    \/ \E c \in Conns : LeaveRoom(c)
    \/ \E c \in Conns : Surrender(c)
    \/ \E r \in 1 .. MaxRooms : TimerFirst(r)
    \/ \E r \in 1 .. MaxRooms : TimerUpdate(r)
    \/ \E r \in 1 .. MaxRooms : TimerTimeout(r)
    \/ ForfeitSweep
    \/ Tick

SpecReconnect == Init /\ [][NextReconnect]_vars

(***************************************************************************)
(* SpecBoard: the board alone.  It starts from any board that holds one    *)
(* pattern of PatLen cells laid along one axis, and applies place_stone    *)
(* followed by check_winner at the placed cell, as handle_place_stone does,*)
(* once on each starting board.                                            *)
(***************************************************************************)
Axes == {<<0, 1>>, <<1, 0>>, <<1, 1>>, <<1, -1>>}

LineBoard(sx, sy, d, pat) ==
    [p \in Pos |->
        IF \E i \in 1 .. PatLen : p = <<sx + (i - 1) * d[1], sy + (i - 1) * d[2]>>
        THEN pat[CHOOSE i \in 1 .. PatLen : p = <<sx + (i - 1) * d[1], sy + (i - 1) * d[2]>>]
        ELSE None]

\* coordinates and colours the board operations are called with
PlaceXY == {<<0, 0>>, <<size - 1, size - 1>>, <<0, size - 1>>, <<2, 2>>,
            <<-1, 0>>, <<0, size>>, <<size, size>>}
PlaceColors == Colors \cup {"red"}

StoneCount(b) == Cardinality({p \in Pos : b[p] # None})

InitBoard ==
    /\ InitServer
    /\ \E sx \in Coord, sy \in Coord, d \in Axes, pat \in [1 .. PatLen -> CellVals] :
          grid = LineBoard(sx, sy, d, pat)
    /\ ret = [op |-> "init", x |-> 0, y |-> 0, color |-> None, err |-> "ok",
              winner |-> None, before |-> EmptyBoard]

BoardPlace(x, y, color) ==
    /\ ret.op = "init"
    /\ LET r == place_stone(grid, x, y, color) IN
       /\ grid' = r.board
       /\ ret' = [op |-> "place", x |-> x, y |-> y, color |-> color, err |-> r.err,
                  winner |-> IF r.err = "ok" THEN check_winner(r.board, x, y) ELSE None,
                  before |-> grid]
    /\ UNCHANGED <<svars, tvars>>

NextBoard == \E xy \in PlaceXY, color \in PlaceColors : BoardPlace(xy[1], xy[2], color)

SpecBoard == InitBoard /\ [][NextBoard]_vars

(***************************************************************************)
(* Claims about the board                                                  *)
(***************************************************************************)
\* the five cells starting k cells before (x, y) along d all hold the colour of (x, y)
RunThrough(b, x, y, d) ==
    \E k \in 0 .. (WinCount - 1) :
        \A i \in 0 .. (WinCount - 1) :
            LET px == x + (i - k) * d[1]
                py == y + (i - k) * d[2]
            IN  is_valid_position(px, py) /\ b[<<px, py>>] = b[<<x, y>>]

RefWinner(b, x, y) ==
    IF b[<<x, y>>] # None /\ \E d \in Axes : RunThrough(b, x, y, d)
    THEN b[<<x, y>>]
    ELSE None

\* C2: on every board and at every in-range cell, check_winner returns the
\* colour of the cell exactly when the cell is non-empty and lies on five or
\* more contiguous stones of its colour along a row, a column or a diagonal,
\* and none otherwise: it agrees with the window-based reference RefWinner.
C2_CheckWinnerIsRunOfFive ==
    /\ \A p \in Pos : check_winner(grid, p[1], p[2]) = RefWinner(grid, p[1], p[2])
    /\ (ret.op = "place" /\ ret.err = "ok") => ret.winner = RefWinner(grid, ret.x, ret.y)

\* a placed stone completes an overline of six and wins
C2_Witness ==
    /\ ret.op = "place" /\ ret.err = "ok" /\ ret.winner = ret.color
    /\ \E i \in 1 .. Len(directions) : line_count(grid, ret.x, ret.y, directions[i]) >= WinCount + 1

\* C3: place_stone fails with InvalidPosition outside the board, with Occupied
\* on a non-empty cell and with BadColor for a colour that is neither black nor
\* white (tested in this order); a failing call leaves the grid unchanged and a
\* succeeding call sets exactly the cell (x, y) to the colour.
C3_PlaceStoneContract ==
    ret.op = "place" =>
        LET p == <<ret.x, ret.y>>
            valid == ret.x \in Coord /\ ret.y \in Coord
        IN  /\ ~valid => ret.err = "InvalidPosition"
            /\ (valid /\ ret.before[p] # None) => ret.err = "Occupied"
            /\ (valid /\ ret.before[p] = None /\ ret.color \notin Colors) => ret.err = "BadColor"
            /\ (valid /\ ret.before[p] = None /\ ret.color \in Colors) => ret.err = "ok"
            /\ ret.err # "ok" => grid = ret.before
            /\ ret.err = "ok" =>
                  /\ grid[p] = ret.color
                  /\ \A q \in Pos \ {p} : grid[q] = ret.before[q]

\* a stone placed in the far corner of a board that already holds stones
C3_Witness ==
    /\ ret.op = "place" /\ ret.err = "ok"
    /\ ret.x = size - 1 /\ ret.y = size - 1
    /\ StoneCount(ret.before) > 0

(***************************************************************************)
(* Claims about the rooms.  They are stated over the operations the server *)
(* can run in a reachable state: EveryOutcome(P) holds when P holds of the *)
(* name op of each such operation, of the connection c it runs for (the    *)
(* room id for a timer event, NoSock for the forfeit monitor) and of the   *)
(* world w the operation leaves.                                           *)
(***************************************************************************)
Stale(c) == conns[c].current_room # NoRoom /\ ~InRoom(rooms[conns[c].current_room], c)

EveryOutcome(P(_, _, _)) ==
    /\ \A c \in Conns :
          conns[c].current_room # NoRoom => P("disconnect", c, ConnectionLost(W0, c))
    /\ \A c \in Seaters :
          (Live(c) /\ next_room_id <= MaxRooms) => P("CREATE_ROOM", c, handle_create_room(W0, c))
    /\ \A c \in Seaters, r \in 1 .. MaxRooms :
          Live(c) => P("JOIN_ROOM", c, handle_join_room(W0, c, r))
    /\ \A c \in Watchers, r \in 1 .. MaxRooms :
          Live(c) => P("SPECTATE_ROOM", c, handle_spectate_room(W0, c, r))
    /\ \A c \in Seaters :
          Live(c) => P("RECONNECT", c, handle_reconnect(W0, c, NameOf(c)))
    /\ \A c \in Conns :
          Live(c) =>
            LET cur == conns[c].current_room IN
            /\ ~Stale(c) => P("CHAT_MESSAGE", c, handle_chat_message(W0, c, cur))
            /\ P("SPECTATOR_CHAT", c, handle_spectator_chat(W0, c, cur))
            /\ P("READY", c, handle_ready(W0, c, cur))
            /\ \A xy \in MovesOf(c) : P("PLACE_STONE", c, handle_place_stone(W0, c, cur, xy))
            /\ P("LEAVE_ROOM", c, handle_leave_room(W0, c, cur, conns[c].role))
            /\ P("SURRENDER", c, handle_surrender(W0, c, cur))
            /\ P("REMATCH", c, handle_rematch(W0, c, cur))
            /\ \A accepted \in BOOLEAN :
                  P("REMATCH_RESPONSE", c, handle_rematch_response(W0, c, cur, accepted))
    /\ \A r \in DOMAIN rooms :
          (rooms[r].timer = "run" /\ rooms[r].turn_start_time # NoTime
                /\ turn_time_limit - rooms[r].turn_start_time <= 0)
            => P("timeout", NoSock,
                 handle_timer_timeout(SetRoom(W0, r, [rooms[r] EXCEPT !.timer = "none"]), r))
    /\ (\E r \in Registered(W0) : check_reconnect_timeout(rooms[r]) # <<>>)
          => P("forfeit", NoSock, monitor_reconnection_timeouts(W0))

\* the colour of the seat the connection holds in the room, None without a seat
SeatColor(rm, c) ==
    IF get_player_by_socket(rm, c) = 0 THEN None
    ELSE rm.players[get_player_by_socket(rm, c)].color

\* the connection is seated in its room and its seat has the colour of current_turn
HoldsTurn(c) ==
    /\ conns[c].current_room # NoRoom
    /\ SeatColor(rooms[conns[c].current_room], c) = rooms[conns[c].current_room].current_turn

Stones(b, color) == Cardinality({p \in Pos : b[p] = color})

SeatColors(rm) == {rm.players[i].color : i \in 1 .. Len(rm.players)}

\* C1: when handlers run one after the other, every stone a PLACE_STONE puts
\* on a board lands on an empty cell of the sender's room, has the colour
\* current_turn had before the message, and is put by a seat of that colour;
\* a PLACE_STONE of a connection that does not hold the turn (the other seat,
\* a spectator, a connection in no room) changes no room and is answered
\* with one ERROR to the sender only.
C1_StoneFollowsTurn ==
    \A c \in Conns : Live(c) =>
      \A xy \in MovesOf(c) :
        LET cur == conns[c].current_room
            w == handle_place_stone(W0, c, cur, xy)
        IN  /\ \A r \in DOMAIN rooms : \A p \in Pos :
                  w.rooms[r].board[p] # rooms[r].board[p] =>
                      /\ r = cur
                      /\ rooms[r].board[p] = None
                      /\ w.rooms[r].board[p] = rooms[r].current_turn
                      /\ SeatColor(rooms[r], c) = rooms[r].current_turn
            /\ ~HoldsTurn(c) =>
                  /\ w.rooms = rooms
                  /\ Len(w.out) = 1
                  /\ w.out[1].type = "ERROR"
                  /\ w.out[1].to = {c}

\* a game under way with stones of both colours on the board, watched by a
\* spectator, in which the seat that does not hold the turn is connected
C1_Witness ==
    \E r \in DOMAIN rooms :
        /\ rooms[r].status = "playing"
        /\ Stones(rooms[r].board, "black") >= 1
        /\ Stones(rooms[r].board, "white") >= 1
        /\ rooms[r].spectators # <<>>
        /\ \E c \in Seaters : conns[c].current_room = r /\ SeatColor(rooms[r], c) # None
                                /\ ~HoldsTurn(c)
        /\ \E c \in Seaters : HoldsTurn(c)

C5_TwoSeatsBlackAndWhite ==
    \A r \in Registered(W0) :
        /\ Len(rooms[r].players) <= 2
        /\ Len(rooms[r].players) = 2 => SeatColors(rooms[r]) = Colors

\* C6: a room whose status is playing has exactly two seats, one black and
\* one white, and the numbers of black and of white stones on its board
\* differ by at most one.
C6_PlayingSeatsAndStones ==
    \A r \in Registered(W0) :
        rooms[r].status = "playing" =>
            /\ Len(rooms[r].players) = 2
            /\ SeatColors(rooms[r]) = Colors
            /\ Stones(rooms[r].board, "black") - Stones(rooms[r].board, "white") \in {-1, 0, 1}

\* C7: an operation turns a status into playing only as a READY in a waiting
\* room that leaves two ready seats with live sockets, or as a rematch
\* request or acceptance in a finished room after which both seats have
\* agreed; and a READY in a playing or finished room changes neither the
\* status, the board, the turn nor the timer.
C7_PlayingOnlyByReadyOrRematch ==
    EveryOutcome(LAMBDA op, c, w :
        \A r \in DOMAIN rooms :
            /\ (rooms[r].status # "playing" /\ w.rooms[r].status = "playing") =>
                  \/ /\ rooms[r].status = "waiting"
                     /\ op = "READY"
                     /\ Len(w.rooms[r].players) = 2
                     /\ \A i \in 1 .. Len(w.rooms[r].players) :
                           w.rooms[r].players[i].ready /\ w.rooms[r].players[i].socket # NoSock
                  \/ /\ rooms[r].status = "finished"
                     /\ op \in {"REMATCH", "REMATCH_RESPONSE"}
                     /\ Len(rooms[r].players) = 2
                     /\ \A i \in 1 .. Len(rooms[r].players) :
                           \/ rooms[r].players[i].name \in rooms[r].rematch_requests
                           \/ rooms[r].players[i].socket = c
            /\ (op = "READY" /\ rooms[r].status \in {"playing", "finished"}) =>
                  /\ w.rooms[r].status = rooms[r].status
                  /\ w.rooms[r].board = rooms[r].board
                  /\ w.rooms[r].current_turn = rooms[r].current_turn
                  /\ w.rooms[r].timer = rooms[r].timer
                  /\ w.rooms[r].turn_start_time = rooms[r].turn_start_time)

\* C8: a READY that turns the status of a room into playing leaves the board
\* empty, current_turn black and the timer started with turn_time_limit
\* seconds to go.
C8_ReadyStartsFreshGame ==
    EveryOutcome(LAMBDA op, c, w :
        \A r \in DOMAIN rooms :
            (op = "READY" /\ rooms[r].status # "playing" /\ w.rooms[r].status = "playing") =>
                /\ w.rooms[r].board = EmptyBoard
                /\ w.rooms[r].current_turn = "black"
                /\ w.rooms[r].timer # "none"
                /\ get_remaining_time(w.rooms[r]) = turn_time_limit)

\* C9: an operation turns a status into finished only in a playing room, and
\* only as a PLACE_STONE, a SURRENDER or a pass of the forfeit monitor.
C9_FinishedOnlyFromPlaying ==
    EveryOutcome(LAMBDA op, c, w :
        \A r \in DOMAIN rooms :
            (rooms[r].status # "finished" /\ w.rooms[r].status = "finished") =>
                /\ rooms[r].status = "playing"
                /\ op \in {"PLACE_STONE", "SURRENDER", "forfeit"})

\* the messages other than PLACE_STONE that C10 interleaves: READY or
\* SURRENDER of a connection, and a pass of the forfeit monitor
QuietMsgs == ({"READY", "SURRENDER"} \X Conns) \cup {<<"forfeit", NoSock>>}

After(w, k) ==
    IF k[1] = "READY" THEN handle_ready(w, k[2], conns[k[2]].current_room)
    ELSE IF k[1] = "SURRENDER" THEN handle_surrender(w, k[2], conns[k[2]].current_room)
    ELSE monitor_reconnection_timeouts(w)

\* C10: from a finished room, whatever two READY, SURRENDER or forfeit
\* operations come first (none of them a rematch), a PLACE_STONE puts no
\* stone on the board of the room and sends no BOARD_UPDATE.
C10_NoStoneAfterFinished ==
    \A r \in DOMAIN rooms :
        rooms[r].status = "finished" =>
            \A k1 \in QuietMsgs, k2 \in QuietMsgs, c \in Conns :
                \A xy \in MovesOf(c) :
                    LET w == handle_place_stone([After(After(W0, k1), k2) EXCEPT !.out = <<>>],
                                                c, conns[c].current_room, xy)
                    IN  /\ w.rooms[r].board = rooms[r].board
                        /\ \A i \in 1 .. Len(w.out) : w.out[i].type # "BOARD_UPDATE"

(***************************************************************************)
(* SpecNames: the server with two seats whose clients gave the same        *)
(* player name (no handler compares the names of a room), and no           *)
(* spectator.  Either connection can be lost, and either can send          *)
(* RECONNECT.  The handlers run as one step each, as in Spec.              *)
(***************************************************************************)
SameNamed == {c \in Conns : NameOf(c) = NameOf("c1")}

NextNames ==
    \/ \E c \in SameNamed : Disconnect(c)
    \/ \E c \in SameNamed : Reconnect(c)
    \/ \E c \in SameNamed : CreateRoom(c)
    \/ \E c \in SameNamed, r \in 1 .. MaxRooms : JoinRoom(c, r)
    \/ \E c \in SameNamed : Ready(c)
    \/ \E c \in SameNamed, xy \in Cells : PlaceStone(c, xy)
    \/ \E c \in SameNamed : LeaveRoom(c)
    \/ \E c \in SameNamed : Surrender(c)
    \/ \E c \in SameNamed : Rematch(c)
    \/ \E c \in SameNamed, accepted \in BOOLEAN : RematchResponse(c, accepted)
    \/ \E r \in 1 .. MaxRooms : TimerFirst(r)

SpecNames == Init /\ [][NextNames]_vars

(***************************************************************************)
(* SpecThreads: one game room looked at thread by thread.  The threads are *)
(* the handle_client threads of the two seats, the timer workers           *)
(* (_timer_worker) and the timeout threads a worker starts.  GameRoom.lock *)
(* is held only inside a step; a step that holds it while it joins the     *)
(* timer thread (stop_timer, start_timer, remove_player) lets the join     *)
(* return at once when the worker sleeps in its loop, and time out when    *)
(* the worker is at a place where it needs the lock next.                  *)
(***************************************************************************)
MaxWorkers == 3
MaxCallbacks == 2

\* the room room_1, the first id create_room hands out
TheRoom == 1

\* the seats whose client sends PLACE_STONE, and the seats whose client
\* surrenders or loses the connection
ThreadPlacers == {"c1"}
ThreadDroppers == {"c2"}

\* a world with the threads: a worker is at first (before its first update),
\* loop (asleep, it looks at the stop event next), lockwait (past the check of
\* line 423, it takes the lock next), update (out of the lock with a positive
\* remaining time) or done; a timeout thread is at check, swap, start or done
T0 ==
    [rooms |-> rooms, next |-> next_room_id, out |-> <<>>,
     workers |-> threads.workers, callbacks |-> threads.callbacks,
     handlers |-> threads.handlers, tt |-> timer_thread, ev |-> timer_stop_event]

\* self.timer_thread and self.timer_thread.is_alive()
is_alive(t) == t.tt # 0 /\ t.workers[t.tt] # "done"

\* if the timer thread is alive: timer_stop_event.set() and
\* timer_thread.join(timeout), called by a thread that holds the lock
SetAndJoin(t) ==
    IF ~is_alive(t) THEN t
    ELSE IF t.workers[t.tt] = "loop" THEN [t EXCEPT !.ev = TRUE, !.workers[t.tt] = "done"]
    ELSE [t EXCEPT !.ev = TRUE]

\* stop_timer, with its effect on the threads
ThreadStopTimer(t) == SetRoom(SetAndJoin(t), TheRoom, stop_timer(t.rooms[TheRoom]))

\* start_timer, with its effect on the threads: past the join, a new Event
\* and a new thread
ThreadStartTimer(t) ==
    IF t.rooms[TheRoom].is_paused THEN t
    ELSE [SetRoom(SetAndJoin(t), TheRoom, start_timer(t.rooms[TheRoom]))
            EXCEPT !.ev = FALSE, !.workers = Append(@, "first"), !.tt = Len(t.workers) + 1]

\* a step that may start a timer thread waits when MaxWorkers have been started
CanStart == Len(threads.workers) < MaxWorkers

SetPc(t, c, pc) == [t EXCEPT !.handlers[c] = pc]

CommitThreads(t, by) ==
    /\ rooms' = t.rooms
    /\ threads' = [workers |-> t.workers, callbacks |-> t.callbacks, handlers |-> t.handlers]
    /\ timer_thread' = t.tt
    /\ timer_stop_event' = t.ev
    /\ sent' = [by |-> by, out |-> t.out]
    /\ UNCHANGED <<bvars, next_room_id, conns>>

\* room_1 with both seats taken and the first seat ready
SeatedRoom ==
    set_player_ready(
      add_player(add_player(NewRoom(TheRoom), "c1", NameOf("c1")), "c2", NameOf("c2")),
      "c1", TRUE)

\* the room after a game in which white let every turn run out, surrendered
\* on black's turn and sent READY once: the board holds k black stones
UsedRoom(k) ==
    [SeatedRoom EXCEPT !.status = "finished", !.has_callback = TRUE,
                       !.board = [p \in Pos |-> IF p[1] = 0 /\ p[2] < k THEN "black" ELSE None]]

\* room_1 before its first game, or after a game that left black one stone
\* short of a row
InitThreads ==
    /\ rooms \in {[r \in {TheRoom} |-> SeatedRoom],
                  [r \in {TheRoom} |-> UsedRoom(WinCount - 1)]}
    /\ next_room_id = TheRoom + 1
    /\ conns = [c \in Conns |-> IF c \in Seaters
                                THEN [current_room |-> TheRoom, role |-> "player"]
                                ELSE LobbyConn]
    /\ InitIdleThreads
    /\ InitIdleBoard

SeatIndex(c) == get_player_by_socket(rooms[TheRoom], c)
SeatOfThread(c) == rooms[TheRoom].players[SeatIndex(c)]

\* handle_ready, sent while no game is played
ThreadReady(c) ==
    /\ threads.handlers[c] = "idle"
    /\ SeatIndex(c) # 0
    /\ rooms[TheRoom].status # "playing"
    /\ CanStart
    /\ CommitThreads(
         IF are_all_players_ready(ToggleReady(T0, c, TheRoom).rooms[TheRoom])
         THEN ThreadStartTimer(
                GameStart(SetRoom(ToggleReady(T0, c, TheRoom), TheRoom,
                                  [ToggleReady(T0, c, TheRoom).rooms[TheRoom]
                                      EXCEPT !.status = "playing"]),
                          TheRoom))
         ELSE ToggleReady(T0, c, TheRoom),
         <<"handler", c>>)

\* handle_place_stone, lines 405-427: the checks, made without the lock
ThreadPlaceCheck(c) ==
    /\ threads.handlers[c] = "idle"
    /\ SeatIndex(c) # 0
    /\ NextFree(rooms[TheRoom].board, RowOf(SeatOfThread(c).color),
                CellsOf(SeatOfThread(c).color)) # {}
    /\ CommitThreads(
         IF rooms[TheRoom].status # "playing"
         THEN send(T0, c, TheRoom, "ERROR", <<"NotPlaying">>)
         ELSE IF SeatOfThread(c).color # rooms[TheRoom].current_turn
         THEN send(T0, c, TheRoom, "ERROR", <<"NotYourTurn">>)
         ELSE SetPc(T0, c, "place"),
         <<"handler", c>>)

\* lines 439-461: place_stone, BOARD_UPDATE and check_winner
Placed(t, c, xy, player, pl) ==
    IF pl.err # "ok" THEN SetPc(send(t, c, TheRoom, "ERROR", <<pl.err>>), c, "idle")
    ELSE SetPc(broadcast_to_all(SetRoom(t, TheRoom, [t.rooms[TheRoom] EXCEPT !.board = pl.board]),
                                TheRoom, "BOARD_UPDATE", <<xy[1], xy[2], player.color>>),
               c, IF check_winner(pl.board, xy[1], xy[2]) # None THEN "win_stop" ELSE "stop")

ThreadPlace(c, xy) ==
    /\ threads.handlers[c] = "place"
    /\ xy \in NextFree(rooms[TheRoom].board, RowOf(SeatOfThread(c).color),
                       CellsOf(SeatOfThread(c).color))
    /\ CommitThreads(
         Placed(T0, c, xy, SeatOfThread(c),
                place_stone(rooms[TheRoom].board, xy[1], xy[2], SeatOfThread(c).color)),
         <<"handler", c>>)

\* lines 464 and 477, and handle_surrender line 729: stop_timer
AfterStop(pc) ==
    IF pc = "win_stop" THEN "finish" ELSE IF pc = "stop" THEN "switch" ELSE "sur_finish"

ThreadStop(c) ==
    /\ threads.handlers[c] \in {"win_stop", "stop", "sur_stop"}
    /\ CommitThreads(SetPc(ThreadStopTimer(T0), c, AfterStop(threads.handlers[c])),
                     <<"handler", c>>)

\* lines 465-473: the game is finished and GAME_END goes out
ThreadFinish(c) ==
    /\ threads.handlers[c] = "finish"
    /\ CommitThreads(
         SetPc(broadcast_to_all(
                 SetRoom(T0, TheRoom, [rooms[TheRoom] EXCEPT !.status = "finished"]),
                 TheRoom, "GAME_END",
                 <<SeatOfThread(c).color, SeatOfThread(c).name, "five">>),
               c, "idle"),
         <<"handler", c>>)

\* lines 480-487: switch_turn and TURN_CHANGE
ThreadSwitch(c) ==
    /\ threads.handlers[c] = "switch"
    /\ CommitThreads(SetPc(TurnChange(SetRoom(T0, TheRoom, switch_turn(rooms[TheRoom])), TheRoom),
                           c, "start"),
                     <<"handler", c>>)

\* line 491: start_timer
ThreadStart(c) ==
    /\ threads.handlers[c] = "start"
    /\ CanStart
    /\ CommitThreads(SetPc(ThreadStartTimer(T0), c, "idle"), <<"handler", c>>)

\* handle_surrender, lines 708-717: the checks
ThreadSurrenderCheck(c) ==
    /\ threads.handlers[c] = "idle"
    /\ SeatIndex(c) # 0
    /\ CommitThreads(
         IF rooms[TheRoom].status # "playing"
         THEN send(T0, c, TheRoom, "ERROR", <<"NotPlaying">>)
         ELSE SetPc(T0, c, "sur_stop"),
         <<"handler", c>>)

\* handle_surrender, lines 730-741
ThreadSurrenderFinish(c) ==
    /\ threads.handlers[c] = "sur_finish"
    /\ CommitThreads(
         SetPc(broadcast_to_all(
                 SetRoom(T0, TheRoom, [rooms[TheRoom] EXCEPT !.status = "finished"]),
                 TheRoom, "GAME_END",
                 <<Other(SeatOfThread(c).color),
                   NameOfColor(rooms[TheRoom], Other(SeatOfThread(c).color)), "surrendered">>),
               c, "idle"),
         <<"handler", c>>)

\* the connection is lost while its thread waits in recv: remove_from_room
\* with is_disconnect; remove_player holds the lock from start to end, and
\* calls stop_timer when it keeps the seat of a game and when one seat is left
ThreadDisconnect(c) ==
    /\ threads.handlers[c] = "idle"
    /\ SeatIndex(c) # 0
    /\ CommitThreads(
         SetPc(Removed(IF rooms[TheRoom].status = "playing" \/ Len(rooms[TheRoom].players) = 2
                       THEN SetAndJoin(T0) ELSE T0,
                       TheRoom, "player", TRUE, remove_player(rooms[TheRoom], c, TRUE)),
               c, "gone"),
         <<"handler", c>>)

SetWorker(t, i, pc) == [t EXCEPT !.workers[i] = pc]

\* _timer_worker line 412: the first update, whatever the stop event says
WorkerFirst(i) ==
    /\ i \in 1 .. Len(threads.workers)
    /\ threads.workers[i] = "first"
    /\ CommitThreads(SetWorker(broadcast_to_all(T0, TheRoom, "TIMER_UPDATE", <<turn_time_limit>>),
                               i, "loop"), <<"worker", i>>)

\* lines 415-424: the loop condition, the sleep and the check after it, all
\* of them reading the Event that self.timer_stop_event names at that time
WorkerSleep(i) ==
    /\ i \in 1 .. Len(threads.workers)
    /\ threads.workers[i] = "loop"
    /\ CommitThreads(SetWorker(T0, i, IF timer_stop_event THEN "done" ELSE "lockwait"),
                     <<"worker", i>>)

\* lines 426-445: turn_start_time is read under the lock; when the time is
\* up a timeout thread is started for the callback and the worker ends
WorkerRead(i) ==
    /\ i \in 1 .. Len(threads.workers)
    /\ threads.workers[i] = "lockwait"
    /\ rooms[TheRoom].turn_start_time # NoTime
         /\ turn_time_limit - rooms[TheRoom].turn_start_time <= 0
       => Len(threads.callbacks) < MaxCallbacks
    /\ CommitThreads(
         IF rooms[TheRoom].turn_start_time = NoTime THEN SetWorker(T0, i, "done")
         ELSE IF turn_time_limit - rooms[TheRoom].turn_start_time <= 0
         THEN [T0 EXCEPT !.workers[i] = "done",
                         !.callbacks = Append(@, [pc |-> "check", of |-> i])]
         ELSE SetWorker(T0, i, "update"),
         <<"worker", i>>)

\* lines 446-449: the update with int(remaining), which is below the limit
\* because the worker has slept since the timer was armed
WorkerUpdate(i) ==
    /\ i \in 1 .. Len(threads.workers)
    /\ threads.workers[i] = "update"
    /\ CommitThreads(SetWorker(broadcast_to_all(T0, TheRoom, "TIMER_UPDATE", <<turn_time_limit - 1>>),
                               i, "loop"), <<"worker", i>>)

SetCallback(t, j, pc) == [t EXCEPT !.callbacks[j].pc = pc]

\* handle_timer_event with "timeout", lines 531-539: the status check
TimeoutCheck(j) ==
    /\ j \in 1 .. Len(threads.callbacks)
    /\ threads.callbacks[j].pc = "check"
    /\ CommitThreads(SetCallback(T0, j, IF rooms[TheRoom].status # "playing"
                                        THEN "done" ELSE "swap"),
                     <<"callback", j>>)

\* lines 541-556: TIME_UP, switch_turn and TURN_CHANGE
TimeUpSwapped(t) ==
    TurnChange(
      SetRoom(broadcast_to_all(t, TheRoom, "TIME_UP", <<t.rooms[TheRoom].current_turn>>),
              TheRoom, switch_turn(t.rooms[TheRoom])),
      TheRoom)

TimeoutSwap(j) ==
    /\ j \in 1 .. Len(threads.callbacks)
    /\ threads.callbacks[j].pc = "swap"
    /\ CommitThreads(SetCallback(TimeUpSwapped(T0), j, "start"), <<"callback", j>>)

\* line 560: start_timer
TimeoutStart(j) ==
    /\ j \in 1 .. Len(threads.callbacks)
    /\ threads.callbacks[j].pc = "start"
    /\ CanStart
    /\ CommitThreads(SetCallback(ThreadStartTimer(T0), j, "done"), <<"callback", j>>)

\* the turn's time runs out
ThreadExpire ==
    /\ rooms[TheRoom].turn_start_time # NoTime
    /\ rooms[TheRoom].turn_start_time < turn_time_limit
    /\ CommitThreads(SetRoom(T0, TheRoom, AgeRoom(rooms[TheRoom])), <<"clock">>)

NextThreads ==
    \/ \E c \in Seaters : ThreadReady(c)
    \/ \E c \in ThreadPlacers : ThreadPlaceCheck(c)
    \/ \E c \in ThreadPlacers, xy \in Cells : ThreadPlace(c, xy)
    \/ \E c \in Seaters : ThreadStop(c)
    \/ \E c \in Seaters : ThreadFinish(c)
    \/ \E c \in Seaters : ThreadSwitch(c)
    \/ \E c \in Seaters : ThreadStart(c)
    \/ \E c \in ThreadDroppers : ThreadSurrenderCheck(c)
    \/ \E c \in Seaters : ThreadSurrenderFinish(c)
    \/ \E c \in ThreadDroppers : ThreadDisconnect(c)
    \/ \E i \in 1 .. MaxWorkers : WorkerFirst(i)
    \/ \E i \in 1 .. MaxWorkers : WorkerSleep(i)
    \/ \E i \in 1 .. MaxWorkers : WorkerRead(i)
    \/ \E i \in 1 .. MaxWorkers : WorkerUpdate(i)
    \/ \E j \in 1 .. MaxCallbacks : TimeoutCheck(j)
    \/ \E j \in 1 .. MaxCallbacks : TimeoutSwap(j)
    \/ \E j \in 1 .. MaxCallbacks : TimeoutStart(j)
    \/ ThreadExpire

SpecThreads == InitThreads /\ [][NextThreads]_vars


\* the message types of the messages a handler has sent
Types(w) == {w.out[i].type : i \in 1 .. Len(w.out)}

\* C12: in a paused game a PLACE_STONE of a seat that is still connected
\* changes neither the board, current_turn nor the status of the room, and
\* sends neither BOARD_UPDATE nor TURN_CHANGE.
C12_PausedRejectsStone ==
    \A c \in Conns : Live(c) =>
      \A xy \in MovesOf(c) :
        LET cur == conns[c].current_room
            w == handle_place_stone(W0, c, cur, xy)
        IN  (/\ cur # NoRoom
             /\ rooms[cur].status = "playing"
             /\ rooms[cur].is_paused
             /\ SeatColor(rooms[cur], c) # None)
            => /\ w.rooms[cur].board = rooms[cur].board
               /\ w.rooms[cur].current_turn = rooms[cur].current_turn
               /\ w.rooms[cur].status = rooms[cur].status
               /\ Types(w) \cap {"BOARD_UPDATE", "TURN_CHANGE"} = {}

\* the deadline of the running timer of a game that is not paused is reached
Expired(rm) ==
    /\ rm.status = "playing"
    /\ ~rm.is_paused
    /\ rm.timer = "run"
    /\ rm.turn_start_time # NoTime
    /\ turn_time_limit - rm.turn_start_time <= 0

\* the world after the timeout callback of room r, and the first update of
\* the timer thread the callback has started
AfterTimeout(r) == handle_timer_timeout(SetRoom(W0, r, [rooms[r] EXCEPT !.timer = "none"]), r)
FirstUpdate(w, r) ==
    handle_timer_update(SetRoom([w EXCEPT !.out = <<>>], r, [w.rooms[r] EXCEPT !.timer = "run"]),
                        r, turn_time_limit)

\* C14: at the deadline of a playing room that is not paused the timeout sends
\* TIME_UP with the colour whose turn it was, gives the turn to the other
\* colour and sends TURN_CHANGE with it, and starts the timer anew, whose
\* first message is TIMER_UPDATE with turn_time_limit; the board and the
\* status stay as they were.
C14_TimeoutPassesTurn ==
    \A r \in DOMAIN rooms :
        Expired(rooms[r]) =>
            /\ Len(AfterTimeout(r).out) = 2
            /\ AfterTimeout(r).out[1].type = "TIME_UP"
            /\ AfterTimeout(r).out[1].data = <<rooms[r].current_turn>>
            /\ AfterTimeout(r).out[2].type = "TURN_CHANGE"
            /\ AfterTimeout(r).out[2].data = <<Other(rooms[r].current_turn)>>
            /\ AfterTimeout(r).rooms[r].current_turn = Other(rooms[r].current_turn)
            /\ AfterTimeout(r).rooms[r].timer = "first"
            /\ get_remaining_time(AfterTimeout(r).rooms[r]) = turn_time_limit
            /\ AfterTimeout(r).rooms[r].board = rooms[r].board
            /\ AfterTimeout(r).rooms[r].status = "playing"
            /\ Len(FirstUpdate(AfterTimeout(r), r).out) = 1
            /\ FirstUpdate(AfterTimeout(r), r).out[1].type = "TIMER_UPDATE"
            /\ FirstUpdate(AfterTimeout(r), r).out[1].data = <<turn_time_limit>>

\* white's deadline is reached in a game with a stone on the board
C14_Witness ==
    \E r \in DOMAIN rooms :
        /\ Expired(rooms[r])
        /\ rooms[r].current_turn = "white"
        /\ Stones(rooms[r].board, "black") >= 1

\* the seats of the room that have no socket
NullSeats(rm) == {i \in 1 .. Len(rm.players) : rm.players[i].socket = NoSock}

\* C17: between operations a registered room that is playing and not paused
\* has two seats, and its turn timer is started and holds a start time.
C17_PlayingHasSeatsAndDeadline ==
    \A r \in Registered(W0) :
        (rooms[r].status = "playing" /\ ~rooms[r].is_paused) =>
            /\ Len(rooms[r].players) = 2
            /\ rooms[r].turn_start_time # NoTime
            /\ rooms[r].timer # "none"

\* a game resumed by a reconnect, with a stone on the board
C17_Witness ==
    \E r \in Registered(W0) :
        /\ rooms[r].status = "playing"
        /\ ~rooms[r].is_paused
        /\ rooms[r].reconnect_attempts # EmptyMap
        /\ Stones(rooms[r].board, "black") >= 1

\* C18: when a seat whose name has used up max_reconnect_attempts loses its
\* connection in a game, the room is finished and not paused afterwards, and
\* a FORFEIT or GAME_END names the other colour as the winner.
C18_ForfeitAtMaxAttempts ==
    \A c \in Seaters :
        LET cur == conns[c].current_room
            w == ConnectionLost(W0, c)
        IN  (/\ cur # NoRoom
             /\ rooms[cur].status = "playing"
             /\ SeatColor(rooms[cur], c) # None
             /\ Get(rooms[cur].reconnect_attempts, NameOf(c), 0) >= max_reconnect_attempts)
            => /\ w.rooms[cur].status = "finished"
               /\ ~w.rooms[cur].is_paused
               /\ \E i \in 1 .. Len(w.out) :
                     /\ w.out[i].type \in {"FORFEIT", "GAME_END"}
                     /\ w.out[i].data[1] = Other(SeatColor(rooms[cur], c))

\* a registered room holds a record for the name that is at most
\* reconnect_timeout seconds old, and the name has reconnected fewer than
\* max_reconnect_attempts times in that room
Eligible(name) ==
    \E r \in Registered(W0) :
        \E i \in 1 .. Len(rooms[r].disconnected_players) :
            /\ rooms[r].disconnected_players[i].name = name
            /\ rooms[r].disconnected_players[i].age <= reconnect_timeout
            /\ Get(rooms[r].reconnect_attempts, name, 0) < max_reconnect_attempts

C20_PausedIffSeatDisconnected ==
    /\ \A c \in Seaters : Live(c) =>
          \A r \in Registered(W0) :
              LET rm == handle_reconnect(W0, c, NameOf(c)).rooms[r]
              IN  (\/ rooms[r].is_paused /\ ~rm.is_paused
                   \/ rooms[r].timer = "none" /\ rm.timer # "none")
                  => NullSeats(rm) = {}
    /\ \A r \in Registered(W0) :
          /\ (rooms[r].status = "playing" /\ NullSeats(rooms[r]) # {}) => rooms[r].is_paused
          /\ rooms[r].is_paused => NullSeats(rooms[r]) # {}


\* a timer worker that has not ended counts down while the deadline is set
CountingDown(i) == threads.workers[i] # "done" /\ rooms[TheRoom].turn_start_time # NoTime

\* C11: while the status of the room is finished, turn_start_time is unset
\* and no timer worker of the room counts down, however the steps of the
\* handler that finished the game interleave with the steps of a placement,
\* of the timer worker and of a timeout thread.
C11_FinishedHasNoTimer ==
    rooms[TheRoom].status = "finished" =>
        /\ rooms[TheRoom].turn_start_time = NoTime
        /\ \A i \in 1 .. Len(threads.workers) : ~CountingDown(i)


\* the step is one of a timer worker or of a timeout thread
TimerStep == sent'.by[1] \in {"worker", "callback"}

\* C13: while the room is paused, no step of a timer worker or of a timeout
\* thread sends TIMER_UPDATE or TIME_UP or changes current_turn, however
\* the disconnect interleaved with the worker and with a pending timeout
\* thread.
C13_NoTimerWhilePaused ==
    [][(rooms[TheRoom].is_paused /\ TimerStep) =>
          /\ \A k \in 1 .. Len(sent'.out) : sent'.out[k].type \notin {"TIMER_UPDATE", "TIME_UP"}
          /\ rooms'[TheRoom].current_turn = rooms[TheRoom].current_turn]_vars


\* the timer workers that have not ended
LiveWorkers == {i \in 1 .. Len(threads.workers) : threads.workers[i] # "done"}

\* C15: at most one timer worker of the room is alive (a worker that is
\* alive sends TIMER_UPDATE or starts a timeout thread unless the stop event
\* or an unset turn_start_time ends it first), however start_timer and
\* stop_timer interleave with the steps of the worker.
C15_OneLiveWorker == Cardinality(LiveWorkers) <= 1


\* the arming whose worker started the timeout thread j has been cancelled
\* (stop_timer) or replaced (start_timer) since
StaleArming(j) ==
    \/ timer_thread # threads.callbacks[j].of
    \/ rooms[TheRoom].turn_start_time = NoTime

\* C16: a step of a timeout thread whose arming has been cancelled or
\* replaced changes neither current_turn nor turn_start_time, sends no
\* TIME_UP and starts no timer worker; and the switch_turn of a placement
\* finds the turn still with the seat that placed the stone, so that a
\* placement and the expiry of its turn swap the turn once.
C16_StaleExpiryIsNoOp ==
    [][/\ \A j \in 1 .. Len(threads.callbacks) :
            (StaleArming(j) /\ sent'.by = <<"callback", j>>) =>
                /\ rooms'[TheRoom].current_turn = rooms[TheRoom].current_turn
                /\ rooms'[TheRoom].turn_start_time = rooms[TheRoom].turn_start_time
                /\ \A k \in 1 .. Len(sent'.out) : sent'.out[k].type # "TIME_UP"
                /\ threads'.workers = threads.workers
       /\ \A c \in Seaters :
            (threads.handlers[c] = "switch" /\ threads'.handlers[c] = "start") =>
                rooms[TheRoom].current_turn = SeatOfThread(c).color]_vars


\* a player name that no connection of the model uses
Stranger == "eve"

\* some registered room counts max_reconnect_attempts reconnects of the name
AttemptsUsed(name) ==
    \E r \in Registered(W0) : Get(rooms[r].reconnect_attempts, name, 0) >= max_reconnect_attempts

\* some registered room holds a record of the name that is older than reconnect_timeout
HasExpiredRecord(name) ==
    \E r \in Registered(W0) :
        HasRecord(rooms[r], name) /\ RecordOf(rooms[r], name).age > reconnect_timeout

\* C21: a RECONNECT that fails tells three cases apart: a name without any
\* record, a name whose record is older than the grace period and a name
\* that has reconnected twice already; the last is answered with
\* ReconnectAttemptsExceeded.
C21_ReconnectFailureKinds ==
    \A c \in Seaters :
        LET out == handle_reconnect(W0, c, NameOf(c)).out
            nosession == handle_reconnect(W0, c, Stranger).out
        IN  /\ nosession[1].type = "ERROR"
            /\ nosession[1].data # <<"ReconnectAttemptsExceeded">>
            /\ (CanReconnectIn(W0, NameOf(c)) = {} /\ AttemptsUsed(NameOf(c))) =>
                   /\ out[1].type = "ERROR"
                   /\ out[1].data = <<"ReconnectAttemptsExceeded">>
            /\ (CanReconnectIn(W0, NameOf(c)) = {} /\ ~AttemptsUsed(NameOf(c))
                  /\ HasExpiredRecord(NameOf(c))) =>
                   /\ out[1].type = "ERROR"
                   /\ out[1].data # nosession[1].data
                   /\ out[1].data # <<"ReconnectAttemptsExceeded">>


\* the timed-out records of room r, as the forfeit sweep finds them
TimedOut(r) == check_reconnect_timeout(rooms[r])

\* the messages of out at k and k + 1 are FORFEIT and GAME_END of room r
\* about the name, both with the winner's colour and the same winner's name
ForfeitPair(out, k, r, name, winner) ==
    /\ out[k].type = "FORFEIT"
    /\ out[k].room = r
    /\ out[k].data[1] = winner
    /\ out[k].data[3] = name
    /\ out[k + 1].type = "GAME_END"
    /\ out[k + 1].room = r
    /\ out[k + 1].data[1] = winner
    /\ out[k + 1].data[2] = out[k].data[2]

\* C22: the forfeit sweep that finds a record older than reconnect_timeout
\* removes the record, leaves the room finished and not paused, and sends
\* FORFEIT and after it GAME_END, both naming as winner the colour opposite
\* to the colour of the seat the record is about.
C22_SweepForfeitsExpired ==
    \A r \in Registered(W0) :
        \A i \in 1 .. Len(TimedOut(r)) :
            LET w == monitor_reconnection_timeouts(W0) IN
            /\ ~HasRecord(w.rooms[r], TimedOut(r)[i].name)
            /\ w.rooms[r].status = "finished"
            /\ ~w.rooms[r].is_paused
            /\ \E k \in 1 .. (Len(w.out) - 1) :
                  ForfeitPair(w.out, k, r, TimedOut(r)[i].name,
                              Other(ColorOfName(rooms[r], TimedOut(r)[i].name)))


\* the connection holds a seat of the room its thread is in, and a game is played there
SeatedInGame(c) ==
    /\ conns[c].current_room # NoRoom
    /\ rooms[conns[c].current_room].status = "playing"
    /\ get_player_by_socket(rooms[conns[c].current_room], c) # 0

\* C23: a SURRENDER of a seated connection in a playing room leaves the room
\* finished with the timer stopped and the deadline unset, and sends one
\* GAME_END whose winner is the colour opposite to the sender's seat; the
\* board and the other rooms stay as they were.  Any other SURRENDER is
\* answered with one ERROR to the sender and changes no room.
C23_SurrenderContract ==
    \A c \in Conns :
        LET cur == conns[c].current_room
            w == handle_surrender(W0, c, cur)
        IN  IF SeatedInGame(c)
            THEN /\ w.rooms[cur].status = "finished"
                 /\ w.rooms[cur].timer = "none"
                 /\ w.rooms[cur].turn_start_time = NoTime
                 /\ w.rooms[cur].board = rooms[cur].board
                 /\ \A r \in DOMAIN rooms \ {cur} : w.rooms[r] = rooms[r]
                 /\ Len(w.out) = 1
                 /\ w.out[1].type = "GAME_END"
                 /\ w.out[1].room = cur
                 /\ w.out[1].data[1] = Other(SeatColor(rooms[cur], c))
            ELSE /\ w.rooms = rooms
                 /\ Len(w.out) = 1
                 /\ w.out[1].type = "ERROR"
                 /\ w.out[1].to = {c}

\* white can surrender a game with a stone on the board and a running timer
\* while a spectator of the room cannot
C23_Witness ==
    \E c \in Conns, d \in Conns :
        /\ SeatedInGame(c)
        /\ SeatColor(rooms[conns[c].current_room], c) = "white"
        /\ rooms[conns[c].current_room].timer = "run"
        /\ Stones(rooms[conns[c].current_room].board, "black") >= 1
        /\ conns[d].current_room = conns[c].current_room
        /\ ~SeatedInGame(d)


\* the room r after remove_from_room has been called for the seat of c
AfterLeave(c, r, is_disconnect) == remove_from_room(W0, c, r, "player", is_disconnect).rooms[r]

\* C24: when remove_from_room takes a seat out of a room of two (a leave, or
\* a lost connection while no game is played), whatever the status was, the
\* room is left waiting with the timer stopped, the deadline unset, an empty
\* board, no rematch request and the remaining seat not ready.
C24_LeaveResetsRoom ==
    \A c \in Conns, r \in DOMAIN rooms, is_disconnect \in BOOLEAN :
        (Len(rooms[r].players) = 2 /\ Len(AfterLeave(c, r, is_disconnect).players) = 1) =>
            /\ AfterLeave(c, r, is_disconnect).status = "waiting"
            /\ AfterLeave(c, r, is_disconnect).timer = "none"
            /\ AfterLeave(c, r, is_disconnect).turn_start_time = NoTime
            /\ AfterLeave(c, r, is_disconnect).board = EmptyBoard
            /\ AfterLeave(c, r, is_disconnect).rematch_requests = {}
            /\ ~AfterLeave(c, r, is_disconnect).players[1].ready

\* a seat can leave a running game with a stone on the board, and a seat can
\* leave a finished game in which a rematch has been asked for
C24_Witness ==
    \/ \E c \in Conns, r \in DOMAIN rooms :
          /\ rooms[r].status = "playing"
          /\ rooms[r].timer = "run"
          /\ Stones(rooms[r].board, "black") >= 1
          /\ Len(AfterLeave(c, r, FALSE).players) = 1
    \/ \E c \in Conns, r \in DOMAIN rooms :
          /\ rooms[r].status = "finished"
          /\ rooms[r].rematch_requests # {}
          /\ Len(rooms[r].players) = 2
          /\ Len(AfterLeave(c, r, TRUE).players) = 1


\* the handler has started a game
SendsGameStart(w) == \E k \in 1 .. Len(w.out) : w.out[k].type = "GAME_START"

\* c holds a seat of the finished room of two it is in, and the name of the
\* other seat is among the rematch requests
PeerHasAsked(c) ==
    /\ conns[c].current_room # NoRoom
    /\ rooms[conns[c].current_room].status = "finished"
    /\ Len(rooms[conns[c].current_room].players) = 2
    /\ \E i \in 1 .. 2 :
          /\ rooms[conns[c].current_room].players[i].socket = c
          /\ rooms[conns[c].current_room].players[3 - i].socket # c
          /\ rooms[conns[c].current_room].players[3 - i].name
                \in rooms[conns[c].current_room].rematch_requests

\* C25: a REMATCH or an accepting REMATCH_RESPONSE starts a game only when
\* its sender holds a seat of a finished room of two whose other seat has
\* asked for or accepted a rematch before, whatever the names of the seats;
\* and what a seat has asked for counts in the finished game it was asked in
\* only: a room that is not finished holds no rematch request.
C25_RematchNeedsBothSeats ==
    /\ \A c \in Conns :
          /\ SendsGameStart(handle_rematch(W0, c, conns[c].current_room)) => PeerHasAsked(c)
          /\ SendsGameStart(handle_rematch_response(W0, c, conns[c].current_room, TRUE))
                => PeerHasAsked(c)
    /\ \A r \in DOMAIN rooms : rooms[r].status # "finished" => rooms[r].rematch_requests = {}


\* a BOARD_UPDATE that carries the empty board comes before a GAME_START
EmptyBoardFirst(out) ==
    \E k \in 1 .. Len(out) : \E j \in (k + 1) .. Len(out) :
       /\ out[k].type = "BOARD_UPDATE"
       /\ out[k].data = <<-1, -1, None, EmptyBoard>>
       /\ out[j].type = "GAME_START"

\* the room new is the room old after a rematch has started
RematchStarted(old, new, out) ==
    /\ new.board = EmptyBoard
    /\ Len(new.players) = Len(old.players)
    /\ \A i \in 1 .. Len(old.players) :
          /\ new.players[i].socket = old.players[i].socket
          /\ new.players[i].color = Other(old.players[i].color)
          /\ new.players[i].ready
    /\ new.current_turn = "black"
    /\ new.status = "playing"
    /\ new.timer = "first"
    /\ new.turn_start_time = 0
    /\ EmptyBoardFirst(out)

\* C26: when a REMATCH or an accepting REMATCH_RESPONSE starts the rematch,
\* the board is empty, every seat has the colour opposite to the one it had
\* in the finished game and is ready, black is to move, the room is playing
\* and its timer is armed, and the BOARD_UPDATE with the empty board has been
\* sent before GAME_START.
C26_RematchStartState ==
    \A c \in Conns :
       /\ SendsGameStart(handle_rematch(W0, c, conns[c].current_room))
            => RematchStarted(rooms[conns[c].current_room],
                              handle_rematch(W0, c, conns[c].current_room).rooms[conns[c].current_room],
                              handle_rematch(W0, c, conns[c].current_room).out)
       /\ SendsGameStart(handle_rematch_response(W0, c, conns[c].current_room, TRUE))
            => RematchStarted(rooms[conns[c].current_room],
                              handle_rematch_response(W0, c, conns[c].current_room, TRUE).rooms[conns[c].current_room],
                              handle_rematch_response(W0, c, conns[c].current_room, TRUE).out)


ColorBySeat(rm) == [i \in 1 .. Len(rm.players) |-> rm.players[i].color]

GameStarts(out) == Cardinality({k \in 1 .. Len(out) : out[k].type = "GAME_START"})

\* c asks for a rematch, gives the rematch game up, and c and d ask again
TwoRematches(c, d) ==
    handle_rematch(
      handle_rematch(
        handle_surrender(handle_rematch(W0, c, conns[c].current_room), c, conns[c].current_room),
        c, conns[c].current_room),
      d, conns[c].current_room)

\* C27: two rematch starts after each other, with the same seats, give every
\* seat the colour it had before the first of them: for start_rematch applied
\* twice to a room, and for two rematches the handlers start in a row.
C27_TwoRematchesRestoreColors ==
    /\ \A r \in DOMAIN rooms : ColorBySeat(start_rematch(start_rematch(rooms[r]))) = ColorBySeat(rooms[r])
    /\ \A c \in Conns : \A d \in Conns :
          (conns[c].current_room # NoRoom /\ GameStarts(TwoRematches(c, d).out) = 2)
             => /\ ColorBySeat(handle_rematch(W0, c, conns[c].current_room).rooms[conns[c].current_room])
                     # ColorBySeat(rooms[conns[c].current_room])
                /\ ColorBySeat(TwoRematches(c, d).rooms[conns[c].current_room])
                     = ColorBySeat(rooms[conns[c].current_room])

C27_Witness ==
    \E c \in Conns : \E d \in Conns :
       /\ conns[c].current_room # NoRoom
       /\ GameStarts(TwoRematches(c, d).out) = 2
       /\ Len(rooms[conns[c].current_room].players) = 2
       /\ rooms[conns[c].current_room].players[1].color # rooms[conns[c].current_room].players[2].color


\* the rematch requests of the room of c after the handler has produced w
RequestsAfter(w, c) == w.rooms[conns[c].current_room].rematch_requests

\* the handler leaves the requests as a superset of what they were, or empty
GrowsOrWiped(w, c) ==
    \/ RequestsAfter(w, c) = {}
    \/ rooms[conns[c].current_room].rematch_requests \subseteq RequestsAfter(w, c)

\* C28: the rematch requests of a room only grow until they are wiped, and
\* they are empty after every handler that starts a game, after a declining
\* REMATCH_RESPONSE and after a seat has left; so a room that is playing or
\* waiting holds no rematch request.
C28_RequestsWipedAtStart ==
    /\ \A r \in DOMAIN rooms :
          rooms[r].status \in {"playing", "waiting"} => rooms[r].rematch_requests = {}
    /\ \A c \in Conns : conns[c].current_room # NoRoom =>
          /\ GrowsOrWiped(handle_ready(W0, c, conns[c].current_room), c)
          /\ GrowsOrWiped(handle_rematch(W0, c, conns[c].current_room), c)
          /\ GrowsOrWiped(handle_rematch_response(W0, c, conns[c].current_room, TRUE), c)
          /\ SendsGameStart(handle_ready(W0, c, conns[c].current_room))
                => RequestsAfter(handle_ready(W0, c, conns[c].current_room), c) = {}
          /\ SendsGameStart(handle_rematch(W0, c, conns[c].current_room))
                => RequestsAfter(handle_rematch(W0, c, conns[c].current_room), c) = {}
          /\ SendsGameStart(handle_rematch_response(W0, c, conns[c].current_room, TRUE))
                => RequestsAfter(handle_rematch_response(W0, c, conns[c].current_room, TRUE), c) = {}
          /\ get_player_by_socket(rooms[conns[c].current_room], c) # 0
                => RequestsAfter(handle_rematch_response(W0, c, conns[c].current_room, FALSE), c) = {}
    /\ \A c \in Conns, r \in DOMAIN rooms :
          (Len(rooms[r].players) = 2 /\ Len(AfterLeave(c, r, FALSE).players) = 1)
             => AfterLeave(c, r, FALSE).rematch_requests = {}


\* the world after c has sent READY twice
TwoReady(c) ==
    handle_ready(handle_ready(W0, c, conns[c].current_room), c, conns[c].current_room)

\* the room of c after the two READY messages
RoomAfterTwoReady(c) == TwoReady(c).rooms[conns[c].current_room]

\* C29: when a seat sends READY twice in a row and the status has not changed
\* between the two messages, the ready flags of both seats, the board, the
\* turn and the status are afterwards what they were before the first one.
C29_TwoReadyRestore ==
    \A c \in Conns :
       ( /\ conns[c].current_room # NoRoom
         /\ get_player_by_socket(rooms[conns[c].current_room], c) # 0
         /\ handle_ready(W0, c, conns[c].current_room).rooms[conns[c].current_room].status
               = rooms[conns[c].current_room].status )
       => /\ RoomAfterTwoReady(c).players = rooms[conns[c].current_room].players
          /\ RoomAfterTwoReady(c).board = rooms[conns[c].current_room].board
          /\ RoomAfterTwoReady(c).current_turn = rooms[conns[c].current_room].current_turn
          /\ RoomAfterTwoReady(c).status = rooms[conns[c].current_room].status


RECURSIVE SumOver(_, _)
SumOver(f, S) ==
    IF S = {} THEN 0
    ELSE LET x == CHOOSE y \in S : TRUE IN f[x] + SumOver(f, S \ {x})

\* the number of seats and spectator entries of the room that hold the socket
RefsIn(rm, sock) ==
    Cardinality({i \in 1 .. Len(rm.players) : rm.players[i].socket = sock})
      + Cardinality({i \in 1 .. Len(rm.spectators) : rm.spectators[i].socket = sock})

\* the number of seats and spectator entries of all rooms that hold the socket
Refs(sock) == SumOver([r \in DOMAIN rooms |-> RefsIn(rooms[r], sock)], DOMAIN rooms)

\* C30: a connection is held by at most one seat or spectator entry of at
\* most one room: CREATE_ROOM, JOIN_ROOM, SPECTATE_ROOM and RECONNECT take the
\* connection out of the room that holds it before they put it in a room.
C30_OneReferencePerConnection == \A c \in Conns : Refs(c) <= 1


\* the handler has answered with an ERROR
SendsError(w) == \E k \in 1 .. Len(w.out) : w.out[k].type = "ERROR"

\* the handler has changed no room and has sent to the requester only
NoEffect(w, c) ==
    /\ w.rooms = rooms
    /\ \A k \in 1 .. Len(w.out) : w.out[k].to \subseteq {c}

\* a room id that names no room
UnknownRoom == MaxRooms + 1

\* C31: a request answered with an ERROR (a JOIN_ROOM or SPECTATE_ROOM for a
\* room that does not exist and a JOIN_ROOM for a full room among them)
\* changes no room, the room the requester is in included, and sends nothing
\* to anybody but the requester.
C31_ErrorHasNoEffect ==
    \A c \in Conns :
       /\ \A room_id \in 1 .. UnknownRoom :
             /\ SendsError(handle_join_room(W0, c, room_id))
                   => NoEffect(handle_join_room(W0, c, room_id), c)
             /\ SendsError(handle_spectate_room(W0, c, room_id))
                   => NoEffect(handle_spectate_room(W0, c, room_id), c)
       /\ SendsError(handle_reconnect(W0, c, NameOf(c)))
             => NoEffect(handle_reconnect(W0, c, NameOf(c)), c)
       /\ SendsError(handle_chat_message(W0, c, conns[c].current_room))
             => NoEffect(handle_chat_message(W0, c, conns[c].current_room), c)
       /\ SendsError(handle_spectator_chat(W0, c, conns[c].current_room))
             => NoEffect(handle_spectator_chat(W0, c, conns[c].current_room), c)
       /\ SendsError(handle_ready(W0, c, conns[c].current_room))
             => NoEffect(handle_ready(W0, c, conns[c].current_room), c)
       /\ \A xy \in Cells :
             SendsError(handle_place_stone(W0, c, conns[c].current_room, xy))
                => NoEffect(handle_place_stone(W0, c, conns[c].current_room, xy), c)
       /\ SendsError(handle_surrender(W0, c, conns[c].current_room))
             => NoEffect(handle_surrender(W0, c, conns[c].current_room), c)
       /\ SendsError(handle_rematch(W0, c, conns[c].current_room))
             => NoEffect(handle_rematch(W0, c, conns[c].current_room), c)
       /\ \A accepted \in BOOLEAN :
             SendsError(handle_rematch_response(W0, c, conns[c].current_room, accepted))
                => NoEffect(handle_rematch_response(W0, c, conns[c].current_room, accepted), c)

(***************************************************************************)
(* SpecRegistry: the handle_client threads of three connections, looked at *)
(* lock by lock.  threads[c] holds the position of the thread of c in its  *)
(* handler, the locals of the handler, and the mutexes the thread holds:   *)
(* RoomManager.lock (registry) and at most one GameRoom.lock (lock).  A    *)
(* step that takes a mutex and gives it back is guarded by the mutex being *)
(* free; sent.locked is the room mutex held while the step was sending.    *)
(* No game is started here: the clients create, join, watch, list, chat    *)
(* and leave, and they ask for a room only from the lobby.                 *)
(***************************************************************************)
\* highest number of a room created in SpecRegistry
MaxIds == 2

IdleThread == [pc |-> "idle", op |-> "none", room |-> NoRoom, it |-> 0,
               registry |-> FALSE, lock |-> NoRoom, empty |-> {}, to |-> {}]

InitRegistry ==
    /\ rooms = EmptyMap
    /\ next_room_id = 1
    /\ conns = [c \in Conns |-> LobbyConn]
    /\ threads = [c \in Conns |-> IdleThread]
    /\ sent = [by |-> "none", out |-> <<>>, locked |-> NoRoom]
    /\ timer_thread = 0
    /\ timer_stop_event = FALSE
    /\ InitIdleBoard

\* no other thread holds RoomManager.lock
RegistryFree(c) == \A d \in Conns \ {c} : ~threads[d].registry

\* no other thread holds the lock of room r
RoomFree(c, r) == \A d \in Conns \ {c} : threads[d].lock # r

\* a room object lives while the registry, a frame of a handler or a socket
\* of a client holds it
Held(rs, ts) ==
    [r \in {q \in DOMAIN rs : \/ rs[q].registered
                               \/ HasLive(rs[q])
                               \/ \E d \in Conns : ts[d].room = q} |-> rs[r]]

\* the thread of c has gone on to t, the rooms and the counter are those of
\* w, and w.out has been sent while the thread held the room mutex locked
CommitStep(c, t, w, cs, locked) ==
    /\ threads' = [threads EXCEPT ![c] = t]
    /\ rooms' = Held(w.rooms, [threads EXCEPT ![c] = t])
    /\ next_room_id' = w.next
    /\ conns' = cs
    /\ sent' = [by |-> IF w.out = <<>> THEN "none" ELSE c, out |-> w.out, locked |-> locked]
    /\ UNCHANGED <<bvars, timer_thread, timer_stop_event>>

\* the create_room calls that have been asked for and not yet made
PendingCreates ==
    Cardinality({d \in Conns : threads[d].op = "create" /\ threads[d].pc \in {"find", "probe", "probed", "create"}})

\* the connections that send JOIN_ROOM
Joiners == {"c2"}

\* handle_client takes a message of the connection: CREATE_ROOM, JOIN_ROOM,
\* SPECTATE_ROOM and LIST_ROOMS begin in the registry, LEAVE_ROOM and
\* SPECTATOR_CHAT in the room of the connection
Receive(c, op, room_id) ==
    /\ threads[c].pc = "idle"
    /\ \/ op = "create" /\ c \in Seaters /\ conns[c].current_room = NoRoom
          /\ next_room_id + PendingCreates <= MaxIds
       \/ op = "join" /\ c \in Joiners /\ conns[c].current_room = NoRoom
       \/ op = "spectate" /\ c \in Watchers /\ conns[c].current_room = NoRoom
       \/ op = "list" /\ c \in Watchers
       \/ op = "leave" /\ conns[c].current_room # NoRoom
       \/ op = "chat" /\ c \in Watchers /\ conns[c].current_room # NoRoom
    /\ CommitStep(c, [IdleThread EXCEPT !.op = op,
                                         !.room = IF op \in {"join", "spectate"} THEN room_id
                                                  ELSE conns[c].current_room,
                                         !.pc = IF op = "leave" THEN "remove"
                                                ELSE IF op = "chat" THEN "chat" ELSE "find"],
                  W0, conns, NoRoom)

\* find_room_by_socket and get_all_rooms_info: with self.lock
RegistryEnter(c) ==
    /\ threads[c].pc = "find"
    /\ RegistryFree(c)
    /\ CommitStep(c, [threads[c] EXCEPT !.pc = "probe", !.registry = TRUE, !.it = 0],
                  W0, conns, NoRoom)

\* the registered rooms the loop over self.rooms.values() has yet to visit
ToVisit(c) == {r \in Registered(W0) : r > threads[c].it}

\* ... room.get_player_by_socket, room.get_spectator_by_socket, room.get_info
\* of the next room: with self.lock of the room, inside the registry's
RoomProbe(c) ==
    /\ threads[c].pc = "probe"
    /\ \E r \in ToVisit(c) :
          /\ \A q \in ToVisit(c) : r <= q
          /\ RoomFree(c, r)
          /\ CommitStep(c, [threads[c] EXCEPT !.pc = "probed", !.lock = r, !.it = r],
                        W0, conns, NoRoom)

\* ... the room's method returns
RoomProbed(c) ==
    /\ threads[c].pc = "probed"
    /\ ToVisit(c) # {}
    /\ CommitStep(c, [threads[c] EXCEPT !.pc = "probe", !.lock = NoRoom], W0, conns, NoRoom)

\* ... the loop is over, the locks are given back (the connection is in no
\* room, so find_room_by_socket returns None and nothing is left)
RegistryExit(c) ==
    /\ threads[c].pc \in {"probe", "probed"}
    /\ ToVisit(c) = {}
    /\ CommitStep(c, [threads[c] EXCEPT !.registry = FALSE, !.lock = NoRoom,
                                          !.pc = IF threads[c].op = "create" THEN "create"
                                                 ELSE IF threads[c].op = "list" THEN "reply"
                                                 ELSE "get"],
                  W0, conns, NoRoom)

\* handle_create_room: room_id = self.room_manager.create_room()
CreateRoomCall(c) ==
    /\ threads[c].pc = "create"
    /\ RegistryFree(c)
    /\ CommitStep(c, [threads[c] EXCEPT !.pc = "get", !.room = next_room_id],
                  create_room(W0), conns, NoRoom)

\* room = self.room_manager.get_room(room_id): a room that is not in the
\* registry is None; join and spectate answer ERROR, create raises on None
GetRoom(c) ==
    /\ threads[c].pc = "get"
    /\ RegistryFree(c)
    /\ IF threads[c].room \in Registered(W0)
       THEN CommitStep(c, [threads[c] EXCEPT !.pc = IF threads[c].op = "join" THEN "check"
                                                    ELSE "add"],
                       W0, conns, NoRoom)
       ELSE IF threads[c].op = "create"
       THEN CommitStep(c, IdleThread, W0, conns, NoRoom)
       ELSE CommitStep(c, IdleThread, send(W0, c, NoRoom, "ERROR", <<"RoomNotFound">>),
                       conns, NoRoom)

\* handle_join_room: room.can_reconnect(player_name), room.is_full()
JoinCheck(c) ==
    /\ threads[c].pc = "check"
    /\ RoomFree(c, threads[c].room)
    /\ IF can_reconnect(rooms[threads[c].room], NameOf(c))
       THEN CommitStep(c, IdleThread, handle_reconnect(W0, c, NameOf(c)),
                       Refresh(handle_reconnect(W0, c, NameOf(c)), c), NoRoom)
       ELSE IF is_full(rooms[threads[c].room])
       THEN CommitStep(c, IdleThread, send(W0, c, threads[c].room, "ERROR", <<"RoomFull">>),
                       conns, NoRoom)
       ELSE CommitStep(c, [threads[c] EXCEPT !.pc = "add"], W0, conns, NoRoom)

\* room.add_player, which raises when the room has two seats, and
\* room.add_spectator
AddToRoom(c) ==
    /\ threads[c].pc = "add"
    /\ RoomFree(c, threads[c].room)
    /\ IF threads[c].op = "spectate"
       THEN CommitStep(c, [threads[c] EXCEPT !.pc = "reply"],
                       SetRoom(W0, threads[c].room,
                               add_spectator(rooms[threads[c].room], c, NameOf(c))),
                       conns, NoRoom)
       ELSE IF Len(rooms[threads[c].room].players) >= 2
       THEN CommitStep(c, IdleThread, W0, conns, NoRoom)
       ELSE CommitStep(c, [threads[c] EXCEPT !.pc = "reply"],
                       SetRoom(W0, threads[c].room,
                               add_player(rooms[threads[c].room], c, NameOf(c))),
                       conns, NoRoom)

\* client_socket.send(response) of the create, join, spectate, list and
\* leave handlers; after create and leave handle_client reads the room anew
Reply(c) ==
    /\ threads[c].pc = "reply"
    /\ IF threads[c].op = "list"
       THEN CommitStep(c, IdleThread, send(W0, c, NoRoom, "ROOM_LIST", Registered(W0)),
                       conns, NoRoom)
       ELSE IF threads[c].op = "leave"
       THEN CommitStep(c, IdleThread, send(W0, c, NoRoom, "SUCCESS", <<"left">>),
                       [conns EXCEPT ![c] = LobbyConn], NoRoom)
       ELSE IF threads[c].op = "create"
       THEN CommitStep(c, IdleThread,
                       send(W0, c, threads[c].room, "SUCCESS", <<"created", "black">>),
                       Refresh(W0, c), NoRoom)
       ELSE CommitStep(c, [threads[c] EXCEPT !.pc = "collect"],
                       send(W0, c, threads[c].room, "SUCCESS",
                            <<IF threads[c].op = "join" THEN "joined" ELSE "spectating">>),
                       conns, NoRoom)

\* broadcast_to_all: with self.lock, the sockets are copied
BroadcastCollect(c) ==
    /\ threads[c].pc = "collect"
    /\ RoomFree(c, threads[c].room)
    /\ CommitStep(c, [threads[c] EXCEPT !.pc = "send", !.lock = threads[c].room,
                                          !.to = Recipients(rooms[threads[c].room])],
                  W0, conns, NoRoom)

\* ... the lock is given back and USER_JOINED is sent to the copied sockets;
\* handle_client reads the room of the connection anew
BroadcastSend(c) ==
    /\ threads[c].pc = "send"
    /\ CommitStep(c, IdleThread,
                  [W0 EXCEPT !.out = <<Msg("USER_JOINED", threads[c].room, threads[c].to,
                                           <<NameOf(c)>>)>>],
                  Refresh(W0, c), NoRoom)

\* remove_from_room up to the call of cleanup_empty_rooms
RemoveCall(c) ==
    /\ threads[c].pc = "remove"
    /\ RoomFree(c, threads[c].room)
    /\ CommitStep(c, [threads[c] EXCEPT !.pc = "scan"],
                  LeftNotices(
                    SetRoom(W0, threads[c].room,
                            (IF conns[c].role = "player"
                             THEN remove_player(rooms[threads[c].room], c, FALSE)
                             ELSE remove_spectator(rooms[threads[c].room], c)).room),
                    threads[c].room, conns[c].role, FALSE, NameOf(c)),
                  conns, NoRoom)

\* cleanup_empty_rooms, first with self.lock: the rooms without a live socket
PurgeScan(c) ==
    /\ threads[c].pc = "scan"
    /\ RegistryFree(c)
    /\ CommitStep(c, [threads[c] EXCEPT !.pc = "purge",
                                          !.empty = {r \in Registered(W0) : ~HasLive(rooms[r])}],
                  W0, conns, NoRoom)

\* cleanup_empty_rooms, second with self.lock: the rooms of the list that
\* are still in the registry are deleted
PurgeDelete(c) ==
    /\ threads[c].pc = "purge"
    /\ RegistryFree(c)
    /\ CommitStep(c, [threads[c] EXCEPT !.pc = "reply", !.empty = {}],
                  [W0 EXCEPT !.rooms = [r \in DOMAIN @ |->
                       IF r \in threads[c].empty THEN [@[r] EXCEPT !.registered = FALSE]
                       ELSE @[r]]],
                  conns, NoRoom)

\* handle_spectator_chat: with current_room.lock, the message is sent to
\* every spectator
ChatSend(c) ==
    /\ threads[c].pc = "chat"
    /\ RoomFree(c, threads[c].room)
    /\ IF get_spectator_by_socket(rooms[threads[c].room], c) = 0
       THEN CommitStep(c, IdleThread,
                       send(W0, c, threads[c].room, "ERROR", <<"NotSpectator">>), conns, NoRoom)
       ELSE CommitStep(c, [threads[c] EXCEPT !.pc = "chatted", !.lock = threads[c].room],
                       handle_spectator_chat(W0, c, threads[c].room), conns, threads[c].room)

\* ... the with block ends
ChatDone(c) ==
    /\ threads[c].pc = "chatted"
    /\ CommitStep(c, IdleThread, W0, conns, NoRoom)

RegistryOps == {"create", "join", "spectate", "list", "leave", "chat"}

NextRegistry ==
    \/ \E c \in Conns, op \in RegistryOps, room_id \in 1 .. MaxIds : Receive(c, op, room_id)
    \/ \E c \in Conns : RegistryEnter(c)
    \/ \E c \in Conns : RoomProbe(c)
    \/ \E c \in Conns : RoomProbed(c)
    \/ \E c \in Conns : RegistryExit(c)
    \/ \E c \in Conns : CreateRoomCall(c)
    \/ \E c \in Conns : GetRoom(c)
    \/ \E c \in Conns : JoinCheck(c)
    \/ \E c \in Conns : AddToRoom(c)
    \/ \E c \in Conns : Reply(c)
    \/ \E c \in Conns : BroadcastCollect(c)
    \/ \E c \in Conns : BroadcastSend(c)
    \/ \E c \in Conns : RemoveCall(c)
    \/ \E c \in Conns : PurgeScan(c)
    \/ \E c \in Conns : PurgeDelete(c)
    \/ \E c \in Conns : ChatSend(c)
    \/ \E c \in Conns : ChatDone(c)

SpecRegistry == InitRegistry /\ [][NextRegistry]_vars

\* the SUCCESS of a create or a join among the messages just sent
SeatGranted(k) ==
    /\ sent.out[k].type = "SUCCESS"
    /\ sent.out[k].data[1] \in {"created", "joined"}

\* C32: the purge takes a room out of the registry only when no live
\* connection is in it, however its two steps interleave with the steps of
\* CREATE_ROOM and JOIN_ROOM on other connections: every room that holds a
\* live player or spectator is in the registry, and a client that is sent
\* SUCCESS for a create or a join holds a seat of a room of the registry.
C32_PurgeKeepsLiveRooms ==
    /\ \A r \in DOMAIN rooms : HasLive(rooms[r]) => rooms[r].registered
    /\ \A k \in 1 .. Len(sent.out) :
          SeatGranted(k) =>
             /\ sent.out[k].room \in Registered(W0)
             /\ get_player_by_socket(rooms[sent.out[k].room], sent.by) # 0

\* the rooms that are in the registry after the step and were not before it
NewRooms ==
    {r \in DOMAIN rooms' : rooms'[r].registered /\ (r \notin DOMAIN rooms \/ ~rooms[r].registered)}

\* C33: the numbers create_room gives out are strictly increasing, so no two
\* rooms ever have the same id and the id of a purged room is not given out
\* again, whichever thread calls create_room: a step puts at most one room
\* in the registry, the room has the number of the counter, which is above
\* the number of every room made before, and the counter goes up by one.
C33_RoomIdsIncrease ==
    [][ /\ next_room_id' >= next_room_id
        /\ \A r \in DOMAIN rooms' : r < next_room_id' /\ rooms'[r].room_id = r
        /\ \A r \in NewRooms : r = next_room_id /\ next_room_id' = next_room_id + 1
        /\ next_room_id' # next_room_id => NewRooms # {} ]_vars

\* create_room has just made the last room, for a thread that finds every
\* room made before it purged
C33_Witness ==
    \E c \in Seaters :
       /\ threads[c].pc = "get"
       /\ threads[c].op = "create"
       /\ threads[c].room = MaxIds
       /\ Registered(W0) = {MaxIds}
       /\ \A d \in Conns \ {c} : threads[d].pc = "idle" /\ conns[d].current_room = NoRoom

\* C34: no thread sends on a socket while it holds the mutex of a room: the
\* broadcasts and the replies copy the sockets under the lock and send after
\* it has been given back.
C34_NoSendUnderRoomLock == sent.out # <<>> => sent.locked = NoRoom

\* C35: no thread takes the mutex of a room (calls a method of a room) while
\* it holds the mutex of the registry.
C35_NoRoomLockUnderRegistry == \A c \in Conns : threads[c].registry => threads[c].lock = NoRoom

\* the seat i of room r holds the socket c in a game, below the attempt cap
LosableSeat(c, r, i) ==
    /\ i # 0
    /\ i = get_player_by_socket(rooms[r], c)
    /\ rooms[r].status = "playing"
    /\ Get(rooms[r].reconnect_attempts, rooms[r].players[i].name, 0) < max_reconnect_attempts

\* what remove_from_room does when the connection c is lost
AfterLoss(c, r) == remove_from_room(W0, c, r, "player", TRUE)

\* PLAYER_DISCONNECTED is sent before GAME_PAUSED
PausedAfterDisconnected(out) ==
    \E k \in 1 .. Len(out) : \E j \in (k + 1) .. Len(out) :
       out[k].type = "PLAYER_DISCONNECTED" /\ out[j].type = "GAME_PAUSED"

\* C36: when the connection of a seat is lost in a game, with the reconnect
\* count of the seat below the maximum, the seat stays with its name, colour
\* and ready flag and without socket, a record for its name is written, the
\* room is paused and its timer stopped; board, turn, status and the other
\* seat are as before, and PLAYER_DISCONNECTED is sent before GAME_PAUSED.
C36_DisconnectKeepsSeat ==
    \A c \in Conns, r \in DOMAIN rooms, i \in 1 .. 2 :
       LosableSeat(c, r, i) =>
          /\ Len(AfterLoss(c, r).rooms[r].players) = Len(rooms[r].players)
          /\ AfterLoss(c, r).rooms[r].players = [rooms[r].players EXCEPT ![i].socket = NoSock]
          /\ HasRecord(AfterLoss(c, r).rooms[r], rooms[r].players[i].name)
          /\ RecordOf(AfterLoss(c, r).rooms[r], rooms[r].players[i].name).age = 0
          /\ AfterLoss(c, r).rooms[r].is_paused
          /\ AfterLoss(c, r).rooms[r].timer = "none"
          /\ AfterLoss(c, r).rooms[r].turn_start_time = NoTime
          /\ AfterLoss(c, r).rooms[r].board = rooms[r].board
          /\ AfterLoss(c, r).rooms[r].current_turn = rooms[r].current_turn
          /\ AfterLoss(c, r).rooms[r].status = rooms[r].status
          /\ PausedAfterDisconnected(AfterLoss(c, r).out)

\* a seat can lose its connection while the timer of a game with stones on
\* the board is running
C36_Witness ==
    \E c \in Conns, r \in DOMAIN rooms, i \in 1 .. 2 :
       /\ LosableSeat(c, r, i)
       /\ rooms[r].timer = "run"
       /\ ~rooms[r].is_paused
       /\ Stones(rooms[r].board, "black") >= 1
       /\ rooms[r].players[i].ready

\* the names of the records that a pass of the forfeit monitor finds too old
TimedOutNames(r) ==
    {check_reconnect_timeout(rooms[r])[k].name :
        k \in 1 .. Len(check_reconnect_timeout(rooms[r]))}

\* the names of the seats of a room
SeatNames(rm) == {rm.players[i].name : i \in 1 .. Len(rm.players)}

\* C37: after a pass of the forfeit monitor no player whose record was
\* forfeited is still seated in the room, so the room has fewer seats than
\* before and none of its seats without socket belongs to a forfeited name.
C37_ForfeitRemovesSeat ==
    \A r \in Registered(W0) :
       TimedOutNames(r) # {} =>
          /\ SeatNames(monitor_reconnection_timeouts(W0).rooms[r]) \cap TimedOutNames(r) = {}
          /\ Len(monitor_reconnection_timeouts(W0).rooms[r].players) < Len(rooms[r].players)
          /\ \A i \in NullSeats(monitor_reconnection_timeouts(W0).rooms[r]) :
                monitor_reconnection_timeouts(W0).rooms[r].players[i].name \notin TimedOutNames(r)

\* the names that have a disconnection record in the room
RecordNames(rm) == {rm.disconnected_players[k].name : k \in 1 .. Len(rm.disconnected_players)}

\* the seat of the name holds a socket again
SeatBound(rm, name) ==
    \E i \in 1 .. Len(rm.players) : rm.players[i].name = name /\ rm.players[i].socket # NoSock

\* the record of the name in room r is still there after the step
RecordKept(r, name) ==
    /\ r \in DOMAIN rooms'
    /\ rooms'[r].registered
    /\ HasRecord(rooms'[r], name)

\* the step is the reconnect of the name, or the forfeit of its record
RecordUsed(r, name) ==
    /\ r \in DOMAIN rooms'
    /\ rooms'[r].registered
    /\ \/ SeatBound(rooms'[r], name) /\ ~SeatBound(rooms[r], name)
       \/ RecordOf(rooms[r], name).age > reconnect_timeout /\ rooms'[r].status = "finished"

\* C38: a disconnection record stays in its room, and the room in the
\* registry, over every step that is neither the reconnect of its name nor
\* the forfeit of the record: no leave, loss of another connection or purge
\* takes the record or the room away.
C38_RecordsStay ==
    [][\A r \in Registered(W0) : \A name \in RecordNames(rooms[r]) :
          RecordKept(r, name) \/ RecordUsed(r, name)]_vars

(***************************************************************************)
(* SpecMonitor: SpecReconnect with the forfeit monitor and the clock       *)
(* running for ever.  monitor_reconnection_timeouts is a daemon thread     *)
(* that start() launches and whose loop never ends, so a pass over the     *)
(* rooms that stays possible is made; time passes by itself.  Nothing      *)
(* obliges a client to send a message.                                     *)
(***************************************************************************)
SpecMonitor == Init /\ [][NextReconnect]_vars /\ WF_vars(ForfeitSweep) /\ WF_vars(Tick)

\* room r is registered, playing and paused
PausedGame(r) ==
    /\ r \in Registered(W0)
    /\ rooms[r].status = "playing"
    /\ rooms[r].is_paused

\* C39: with the forfeit monitor running, every room that is playing and
\* paused stops being so: its seat reconnects, its game is finished by
\* forfeit, or the room leaves the registry.
C39_PausedEnds == \A r \in 1 .. MaxRooms : PausedGame(r) ~> ~PausedGame(r)

\* the GAME_END messages of room r among the messages sent
GameEndsOf(out, r) == {k \in 1 .. Len(out) : out[k].room = r /\ out[k].type = "GAME_END"}

\* the winners that the GAME_END and FORFEIT messages of room r name
WinnersOf(out, r) ==
    {out[k].data[1] : k \in {j \in 1 .. Len(out) : out[j].room = r
                                                   /\ out[j].type \in {"GAME_END", "FORFEIT"}}}

\* the messages end at most one game of room r, for one winner, and none
\* when the game of the room has ended already
OneVerdict(out, r) ==
    /\ Cardinality(GameEndsOf(out, r)) <= (IF rooms[r].status = "playing" THEN 1 ELSE 0)
    /\ Cardinality(WinnersOf(out, r)) <= 1
    /\ rooms[r].status # "playing" => WinnersOf(out, r) = {}

\* C40: a game is ended once and for one winner: a pass of the forfeit
\* monitor, a surrender or a placement sends at most one GAME_END for a room,
\* its GAME_END and FORFEIT messages name the same winner, and it sends none
\* of them for a room whose game has ended and has not started again.
C40_OneGameEndPerGame ==
    \A r \in Registered(W0) :
       /\ OneVerdict(monitor_reconnection_timeouts(W0).out, r)
       /\ \A c \in Conns :
             /\ OneVerdict(handle_surrender(W0, c, conns[c].current_room).out, r)
             /\ \A xy \in Cells :
                   OneVerdict(handle_place_stone(W0, c, conns[c].current_room, xy).out, r)

====
